---- MODULE Spec2Model ----
(***************************************************************************)
(* Workspace indexer of auggie-rs: blob cache, incremental scanner, upload *)
(* engine, sync orchestrator and the codebase-retrieval upload loop.       *)
(*                                                                         *)
(* Paths are sequences of tokens; the token "#chunk" is the literal text   *)
(* the scanner searches for.  File content is a sequence of lines.  A blob *)
(* name (SHA-256 of path bytes followed by content bytes) is modelled by   *)
(* the byte string that is hashed, so equal inputs to the hash give equal  *)
(* names and nothing else does.                                            *)
(***************************************************************************)
EXTENDS Integers, Sequences, FiniteSets, TLC

\* ------------------------------------------------------------------ bounds
\* files that may exist in the workspace (relative paths)
FileX == <<"x">>
FileXC == <<"x", "#chunk", "z">>
FileNames == {FileX, FileXC}
\* file contents: one line (one blob) and two lines (two chunks)
Contents == {<<"p">>, <<"p", "q">>}
MaxMtime == 2
MaxEdits == 1
MaxRuns == 2
\* scaled stand-ins for MAX_LINES_PER_BLOB (800) and MAX_BLOB_SIZE (128 KiB)
LinesPerBlob == 1
BlobSize == 2
\* scaled stand-ins for MAX_UPLOAD_BATCH_BLOB_COUNT (128) and
\* MAX_UPLOAD_BATCH_BYTE_SIZE (1e6)
BatchBlobCount == 2
BatchByteSize == 4

Mtimes == 1..MaxMtime

\* ------------------------------------------------------------------- state
VARIABLES
    fs,                  \* the workspace: live relative path -> [mtime, content]
    cache,               \* WorkspaceManager.blobs_cache
    content_seq_counter, \* WorkspaceManager.content_seq_counter
    disk,                \* the persisted cache file
    upload_status,       \* WorkspaceManager.upload_status
    acked,               \* blob names the server has acknowledged so far
    obs,                 \* cached path -> mtime its file had at the scan that led to the commit
    inc,                 \* the running or last sync_incremental call
    full,                \* the background sync_full call
    tool,                \* the running or last codebase_retrieval tool call
    edits,               \* number of workspace changes so far
    runs,                \* number of foreground calls started so far
    bc,                  \* a stand-alone BlobsCache driven through its own operations
    rw,                  \* the cache behind its RwLock, with the lock's holders and the two syncs
    http,                \* one send_with_retry call: attempt, answers received, waits made
    chunker,             \* files run through process_file and create_upload_batches
    runtime,             \* the process-wide RUNTIME cell and the threads calling set_runtime / get_runtime
    api,                 \* one HTTP status run through ApiStatus::from_http_status
    startup,             \* the startup sequence: environment, session store and the steps of ensure_all
    resolver,            \* one model resolution: registry, --model input, catalog default and the outcome
    call,                \* one sync_incremental call followed await by await, with its upload requests in flight
    enh,                 \* the running or last prompt_enhancer tool call
    adapt,               \* the byte-capped upload loop of codebase_retrieval
    walk,                \* one path under the ignore rules: should_ignore and the walk of a scan
    sess,                \* the ApiClients of the process and the x-request-session-id of each request sent
    locks,               \* the three RwLocks of the manager: holders, FIFO waiters and each task's position
    bgu                  \* background_upload: the chunks left, its counters and the request in flight

vars == <<fs, cache, content_seq_counter, disk, upload_status, acked, obs,
          inc, full, tool, edits, runs, bc, rw, http, chunker, runtime, api, startup, resolver, call, enh, adapt, walk, sess, locks, bgu>>

\* ------------------------------------------------------------- map helpers
EmptyMap == [x \in {} |-> 0]
Put(f, k, v) == [x \in (DOMAIN f) \cup {k} |-> IF x = k THEN v ELSE f[x]]
Del(f, k) == [x \in (DOMAIN f) \ {k} |-> f[x]]
Range(s) == {s[i] : i \in DOMAIN s}

RECURSIVE SetToSeq(_)
\* a fixed enumeration of a set (iteration order of a HashMap or of the walk)
SetToSeq(S) == IF S = {} THEN <<>>
               ELSE LET x == CHOOSE y \in S : TRUE IN <<x>> \o SetToSeq(S \ {x})

RECURSIVE Flatten(_)
Flatten(ss) == IF ss = <<>> THEN <<>> ELSE Head(ss) \o Flatten(Tail(ss))

\* ------------------------------------------------------------------- cache
\* byte length of a line (content.len() counts bytes)
LineBytes(line) ==
    CASE line = "q" -> 2
      [] line = "r" -> BlobSize + 1          \* a line longer than a blob may be
      [] line = "s" -> BatchByteSize          \* a line as long as a batch may be
      [] OTHER -> 1

RECURSIVE ContentBytes(_)
ContentBytes(c) == IF c = <<>> THEN 0 ELSE LineBytes(Head(c)) + ContentBytes(Tail(c))

\* sha256(path bytes || content bytes): the hashed byte string stands for the hash
compute_blob_name(path, content) == path \o content

FileEntry(mtime, blob_name, content_seq) ==
    [mtime |-> mtime, blob_name |-> blob_name, content_seq |-> content_seq]

EmptyCache == [path_to_blob |-> EmptyMap, blob_to_path |-> EmptyMap]

\* BlobsCache::update
update(c, path, mtime, blob_name, content_seq) ==
    LET rev1 == IF path \in DOMAIN c.path_to_blob
                   /\ c.path_to_blob[path].blob_name # blob_name
                THEN Del(c.blob_to_path, c.path_to_blob[path].blob_name)
                ELSE c.blob_to_path
    IN [path_to_blob |-> Put(c.path_to_blob, path, FileEntry(mtime, blob_name, content_seq)),
        blob_to_path |-> Put(rev1, blob_name, path)]

\* BlobsCache::remove
remove(c, path) ==
    IF path \in DOMAIN c.path_to_blob
    THEN [path_to_blob |-> Del(c.path_to_blob, path),
          blob_to_path |-> Del(c.blob_to_path, c.path_to_blob[path].blob_name)]
    ELSE c

\* BlobsCache::get_uploaded_blob_names
get_uploaded_blob_names(c) == {c.path_to_blob[p].blob_name : p \in DOMAIN c.path_to_blob}

\* BlobsCache::has_blob
has_blob(c, blob_name) == blob_name \in DOMAIN c.blob_to_path

\* ----------------------------------------------------------------- scanner
DigitStr == <<"1", "2", "3", "4", "5", "6", "7", "8", "9">>

RECURSIVE FindChunk(_, _)
\* index of the first "#chunk" in path at or after i, 0 when there is none
FindChunk(path, i) ==
    IF i > Len(path) THEN 0
    ELSE IF path[i] = "#chunk" THEN i ELSE FindChunk(path, i + 1)

\* base_path_for_cached_path
base_path_for_cached_path(path) ==
    LET idx == FindChunk(path, 1)
    IN IF idx = 0 THEN path ELSE SubSeq(path, 1, idx - 1)

RECURSIVE SplitLoop(_, _, _, _, _)
\* the for loop of split_content_into_chunks over the lines from index i
SplitLoop(content, i, chunks, current, current_bytes) ==
    IF i > Len(content)
    THEN IF current # <<>> THEN Append(chunks, current) ELSE chunks
    ELSE LET line == content[i]
             would_exceed_lines == Len(current) >= LinesPerBlob
             would_exceed_bytes == current_bytes + LineBytes(line) > BlobSize
             seal == current # <<>> /\ (would_exceed_lines \/ would_exceed_bytes)
         IN IF seal
            THEN SplitLoop(content, i + 1, Append(chunks, current), <<line>>, LineBytes(line))
            ELSE SplitLoop(content, i + 1, chunks, Append(current, line),
                           current_bytes + LineBytes(line))

\* a splitter that forgets to push the chunk being filled when the lines end
split_content_into_chunks_no_tail(content) ==
    IF content = <<>> THEN << <<>> >>
    ELSE LET all == SplitLoop(content, 1, <<>>, <<>>, 0)
             chunks == SubSeq(all, 1, Len(all) - 1)
         IN IF chunks = <<>> THEN << <<>> >> ELSE chunks

\* split_content_into_chunks
split_content_into_chunks(content) ==
    IF content = <<>> THEN << <<>> >>
    ELSE LET chunks == SplitLoop(content, 1, <<>>, <<>>, 0)
         IN IF chunks = <<>> THEN << <<>> >> ELSE chunks

FileBlob(path, content, mtime) ==
    [path |-> path, content |-> content,
     blob_name |-> compute_blob_name(path, content), mtime |-> mtime]

\* format!("{}#chunk{}of{}", relative_path, idx + 1, total_chunks)
ChunkPath(relative_path, i, total) ==
    relative_path \o <<"#chunk", DigitStr[i], "of", DigitStr[total]>>

\* ghost: the file a blob path was produced from (inverse of ChunkPath)
SrcFile(p) ==
    IF Len(p) > 4 /\ p[Len(p) - 3] = "#chunk" /\ p[Len(p) - 1] = "of"
    THEN SubSeq(p, 1, Len(p) - 4) ELSE p

\* process_file for a readable UTF-8 file with metadata mtime
process_file(relative_path, file) ==
    LET chunks == split_content_into_chunks(file.content)
    IN IF Len(chunks) = 1
       THEN <<FileBlob(relative_path, chunks[1], file.mtime)>>
       ELSE [i \in 1..Len(chunks) |->
                FileBlob(ChunkPath(relative_path, i, Len(chunks)), chunks[i], file.mtime)]

\* the files the walk yields, in walk order
Walk(files) == SetToSeq(DOMAIN files)

\* cached paths grouped under a base path (cached_by_base_path[base])
CachedGroup(c, base) ==
    {p \in DOMAIN c.path_to_blob : base_path_for_cached_path(p) = base}

RECURSIVE ScanLoop(_, _, _, _)
\* the walk loop of scan_workspace_incremental; acc holds to_upload,
\* unchanged_blobs, seen_cache_paths and the files whose content was read
ScanLoop(files, c, todo, acc) ==
    IF todo = <<>> THEN acc
    ELSE LET relative_path == Head(todo)
             current_mtime == files[relative_path].mtime
             cached_group == CachedGroup(c, relative_path)
             all_match == \A p \in cached_group : c.path_to_blob[p].mtime = current_mtime
             blobs == process_file(relative_path, files[relative_path])
         IN IF cached_group # {} /\ all_match
            THEN ScanLoop(files, c, Tail(todo),
                   [acc EXCEPT !.seen = @ \cup cached_group,
                               !.unchanged_blobs = @ \o
                                  [i \in 1..Cardinality(cached_group) |->
                                     c.path_to_blob[SetToSeq(cached_group)[i]].blob_name]])
            ELSE ScanLoop(files, c, Tail(todo),
                   [acc EXCEPT !.seen = @ \cup {blobs[i].path : i \in DOMAIN blobs},
                               !.to_upload = @ \o blobs,
                               !.read = @ \cup {relative_path}])

\* scan_workspace_incremental
scan_workspace_incremental(files, c) ==
    LET acc == ScanLoop(files, c, Walk(files),
                        [to_upload |-> <<>>, unchanged_blobs |-> <<>>,
                         seen |-> {}, read |-> {}])
    IN [to_upload |-> acc.to_upload,
        unchanged_blobs |-> acc.unchanged_blobs,
        deleted_paths |-> SetToSeq({p \in DOMAIN c.path_to_blob : p \notin acc.seen}),
        read |-> acc.read]

\* scan_workspace: the full scan
scan_workspace(files) ==
    Flatten([i \in 1..Len(Walk(files)) |-> process_file(Walk(files)[i], files[Walk(files)[i]])])

\* ----------------------------------------------------------------- manager
RECURSIVE MarkLoop(_, _, _, _)
\* the for loop of mark_files_as_uploaded; st holds the cache and the counter
MarkLoop(files, i, c, counter) ==
    IF i > Len(files) THEN [cache |-> c, counter |-> counter]
    ELSE MarkLoop(files, i + 1,
                  update(c, files[i].path, files[i].mtime, files[i].blob_name, counter),
                  counter + 1)

\* mark_files_as_uploaded re-reading each file's mtime at commit time
mark_files_as_uploaded_refetch(c, counter, files) ==
    MarkLoop([i \in DOMAIN files |->
                [files[i] EXCEPT !.mtime = IF SrcFile(files[i].path) \in DOMAIN fs
                                           THEN fs[SrcFile(files[i].path)].mtime
                                           ELSE 0]],
             1, c, counter)

\* WorkspaceManager::mark_files_as_uploaded
mark_files_as_uploaded(c, counter, files) == MarkLoop(files, 1, c, counter)

RECURSIVE RemoveLoop(_, _, _)
RemoveLoop(paths, i, c) ==
    IF i > Len(paths) THEN c
    ELSE RemoveLoop(paths, i + 1,
                    IF paths[i] \in DOMAIN c.path_to_blob
                    THEN [path_to_blob |-> Del(c.path_to_blob, paths[i]),
                          blob_to_path |-> Del(c.blob_to_path,
                                               c.path_to_blob[paths[i]].blob_name)]
                    ELSE c)

\* WorkspaceManager::remove_deleted_from_cache
remove_deleted_from_cache(c, deleted_paths) == RemoveLoop(deleted_paths, 1, c)

\* WorkspaceManager::scan_and_get_files_to_upload
get_files_to_upload(files, c) ==
    SelectSeq(scan_workspace(files), LAMBDA blob : ~has_blob(c, blob.blob_name))

\* ----------------------------------------------------------- upload engine
RECURSIVE BatchLoop(_, _, _, _, _)
\* the for loop of create_upload_batches
BatchLoop(files, i, batches, current_batch, current_bytes) ==
    IF i > Len(files)
    THEN IF current_batch # <<>> THEN Append(batches, current_batch) ELSE batches
    ELSE LET file_size == ContentBytes(files[i].content)
             would_exceed_count == Len(current_batch) >= BatchBlobCount
             would_exceed_bytes == current_bytes + file_size >= BatchByteSize
         IN IF (would_exceed_count \/ would_exceed_bytes) /\ current_batch # <<>>
            THEN BatchLoop(files, i + 1, Append(batches, current_batch),
                           <<files[i]>>, file_size)
            ELSE BatchLoop(files, i + 1, batches, Append(current_batch, files[i]),
                           current_bytes + file_size)

\* create_upload_batches
create_upload_batches(files) == BatchLoop(files, 1, <<>>, <<>>, 0)

\* what the server may answer to one request: Err, or Ok with a list of names
SingleOutcomes == {"ok", "empty", "err"}
\* answers to a batch of n blobs: the batch request fails or lists k names
\* (one more than n included), and each single-blob request has an outcome
Outcomes(n) ==
    [ok : BOOLEAN, k : 0..(n + 1), single : [1..n -> SingleOutcomes]]

Names(files) == [i \in DOMAIN files |-> files[i].blob_name]

RECURSIVE FallbackLoop(_, _, _, _)
\* the sequential fallback loop of upload_batch_with_fallback from index i
FallbackLoop(batch, i, out, result) ==
    IF i > Len(batch) THEN result
    ELSE LET sent == [result EXCEPT !.requests = Append(@, <<batch[i].blob_name>>)]
         IN IF out.single[i] = "ok"
            THEN FallbackLoop(batch, i + 1, out,
                   [sent EXCEPT !.blob_names = Append(@, batch[i].blob_name),
                                !.uploaded_files = Append(@, batch[i]),
                                !.sequential_uploaded = @ + 1])
            ELSE FallbackLoop(batch, i + 1, out, sent)

\* upload_batch_with_fallback that gives up when the batch request fails
\* instead of falling back
upload_batch_abort_on_failure(batch, out) ==
    LET empty == [batch_uploaded |-> 0, sequential_uploaded |-> 0,
                  blob_names |-> <<>>, uploaded_files |-> <<>>,
                  requests |-> <<>>, panicked |-> FALSE]
        successfully_uploaded == IF out.ok THEN out.k ELSE 0
        after_batch ==
            [empty EXCEPT !.requests = <<Names(batch)>>,
                          !.blob_names = SubSeq(Names(batch), 1, successfully_uploaded),
                          !.batch_uploaded = successfully_uploaded,
                          !.uploaded_files = SubSeq(batch, 1, successfully_uploaded)]
    IN IF batch = <<>> THEN empty
       ELSE IF successfully_uploaded > Len(batch) \/ ~out.ok
            THEN [empty EXCEPT !.requests = <<Names(batch)>>, !.panicked = TRUE]
            ELSE FallbackLoop(batch, successfully_uploaded + 1, out, after_batch)

\* upload_batch_with_fallback whose fallback loop does not skip the acknowledged blobs
upload_batch_no_skip(batch, out) ==
    LET empty == [batch_uploaded |-> 0, sequential_uploaded |-> 0,
                  blob_names |-> <<>>, uploaded_files |-> <<>>,
                  requests |-> <<>>, panicked |-> FALSE]
        successfully_uploaded == IF out.ok THEN out.k ELSE 0
        after_batch ==
            [empty EXCEPT !.requests = <<Names(batch)>>,
                          !.blob_names = IF out.ok
                                         THEN SubSeq(Names(batch), 1, successfully_uploaded)
                                         ELSE <<>>,
                          !.batch_uploaded = successfully_uploaded,
                          !.uploaded_files = SubSeq(batch, 1, successfully_uploaded)]
    IN IF batch = <<>> THEN empty
       ELSE IF successfully_uploaded > Len(batch)
            THEN [empty EXCEPT !.requests = <<Names(batch)>>, !.panicked = TRUE]
            ELSE FallbackLoop(batch, 1, out, after_batch)

\* upload_batch_with_fallback; requests is the list of requests it issued
\* (each the blob names sent), panicked is set when batch[..k] is out of range
upload_batch_with_fallback(batch, out) ==
    LET empty == [batch_uploaded |-> 0, sequential_uploaded |-> 0,
                  blob_names |-> <<>>, uploaded_files |-> <<>>,
                  requests |-> <<>>, panicked |-> FALSE]
        successfully_uploaded == IF out.ok THEN out.k ELSE 0
        after_batch ==
            [empty EXCEPT !.requests = <<Names(batch)>>,
                          !.blob_names = IF out.ok
                                         THEN SubSeq(Names(batch), 1, successfully_uploaded)
                                         ELSE <<>>,
                          !.batch_uploaded = successfully_uploaded,
                          !.uploaded_files = SubSeq(batch, 1, successfully_uploaded)]
    IN IF batch = <<>> THEN empty
       ELSE IF successfully_uploaded > Len(batch)
            THEN [empty EXCEPT !.requests = <<Names(batch)>>, !.panicked = TRUE]
            ELSE FallbackLoop(batch, successfully_uploaded + 1, out, after_batch)

\* the blob names the server acknowledged while answering as out
Acknowledged(batch, out) ==
    {batch[i].blob_name : i \in {j \in DOMAIN batch : out.ok /\ j <= out.k}}
    \cup {batch[i].blob_name :
            i \in {j \in DOMAIN batch :
                     (~out.ok \/ (j > out.k /\ out.k <= Len(batch))) /\ out.single[j] = "ok"}}

\* ------------------------------------------- codebase-retrieval upload loop
\* scaled stand-ins for MAX_BATCH_BYTES (4 MiB) and MIN_BATCH_BYTES (256 KiB)
ToolMaxBatchBytes == 16
ToolMinBatchBytes == 1
MAX_RETRIES == 3

RECURSIVE ByBytesLoop(_, _, _, _, _, _)
\* the for loop of batch_by_bytes
ByBytesLoop(files, i, max_bytes, batches, current_batch, current_bytes) ==
    IF i > Len(files)
    THEN IF current_batch # <<>> THEN Append(batches, current_batch) ELSE batches
    ELSE LET file_size == ContentBytes(files[i].content)
         IN IF file_size > max_bytes
            THEN ByBytesLoop(files, i + 1, max_bytes,
                    Append(IF current_batch # <<>> THEN Append(batches, current_batch)
                           ELSE batches, <<files[i]>>),
                    <<>>, 0)
            ELSE IF current_bytes + file_size > max_bytes /\ current_batch # <<>>
                 THEN ByBytesLoop(files, i + 1, max_bytes, Append(batches, current_batch),
                                  <<files[i]>>, file_size)
                 ELSE ByBytesLoop(files, i + 1, max_bytes, batches,
                                  Append(current_batch, files[i]), current_bytes + file_size)

\* batch_by_bytes
batch_by_bytes(files, max_bytes) == ByBytesLoop(files, 1, max_bytes, <<>>, <<>>, 0)

Max(a, b) == IF a >= b THEN a ELSE b
Min(a, b) == IF a <= b THEN a ELSE b

\* ----------------------------------------------------------- initial state
\* Checkpoint { checkpoint_id: None, added_blobs, deleted_blobs: Vec::new() }
Checkpoint(added_blobs) ==
    [checkpoint_id |-> "None", added_blobs |-> added_blobs, deleted_blobs |-> <<>>]

EmptyScan == [to_upload |-> <<>>, unchanged_blobs |-> <<>>, deleted_paths |-> <<>>,
              read |-> {}]
NoResult == [batch_uploaded |-> 0, sequential_uploaded |-> 0, blob_names |-> <<>>,
             uploaded_files |-> <<>>, requests |-> <<>>, panicked |-> FALSE]
NoLast == [batch |-> <<>>, result |-> NoResult, batch_failed |-> FALSE, names |-> 0]

IncIdle == [pc |-> "idle", scan |-> EmptyScan, batches |-> <<>>,
            uploaded_blobs |-> <<>>, uploaded_count |-> 0,
            checkpoint |-> Checkpoint(<<>>),
            reqs |-> <<>>, last |-> NoLast,
            scan_fs |-> EmptyMap, scan_cache |-> EmptyCache,
            acked_now |-> {}, failed |-> {},
            prev_checkpoint |-> Checkpoint(<<>>), prev_failed |-> {}, dirty |-> FALSE, quiet |-> 0,
            save_failed |-> FALSE, ret_cache |-> EmptyCache]

FullIdle == [pc |-> "idle", batches |-> <<>>, total_files |-> 0, uploaded_count |-> 0,
             checkpoint |-> Checkpoint(<<>>), scan_fs |-> EmptyMap,
             scan_cache |-> EmptyCache, ret_cache |-> EmptyCache]

ToolIdle == [pc |-> "idle", scan |-> EmptyScan, batches |-> <<>>, retry_batch |-> <<>>,
             retries |-> 0, active |-> FALSE, current_max_bytes |-> ToolMaxBatchBytes,
             uploaded_blobs |-> <<>>, checkpoint |-> Checkpoint(<<>>),
             scan_fs |-> EmptyMap,
             last_sent |-> <<>>, last_k |-> 0]

NoStatus == [total_files |-> 0, uploaded_files |-> 0, is_uploading |-> FALSE,
             upload_complete |-> FALSE]

\* no file has been processed
ChunkerIdle == [pc |-> "scanning", done |-> {}, path |-> <<>>, content |-> <<>>,
                file_blobs |-> <<>>, to_upload |-> <<>>, batches |-> <<>>]

\* the threads of the process and the RUNTIME cell before any call
Threads == {"main", "worker"}
RuntimeIdle == [cell |-> <<>>,
                pc |-> [t \in Threads |-> "idle"],
                arg |-> [t \in Threads |-> "None"],
                sets |-> 0, applied |-> <<>>, ignored |-> 0, gets |-> <<>>]

\* background_upload has not been spawned
BguIdle == [pc |-> "idle", chunks |-> <<>>, total_files |-> 0, uploaded_count |-> 0,
            sent |-> 0]

\* the tasks that use the locks of one WorkspaceManager
Tasks == {"sync_full", "sync_incremental", "load_state", "status"}
LockNames == {"blobs_cache", "content_seq_counter", "upload_status"}
\* no task has started, no lock is held or waited for
LocksIdle == [holders |-> [l \in LockNames |-> {}], queue |-> [l \in LockNames |-> <<>>],
              pc |-> [t \in Tasks |-> "idle"], ops |-> [t \in Tasks |-> <<>>],
              held |-> [t \in Tasks |-> 0]]

\* a process that has built no ApiClient and sent no request
SessIdle == [clients |-> [o \in {} |-> 0], sent |-> <<>>]

\* no path has been put to the ignore rules
WalkIdle == [pc |-> "idle", path |-> <<>>, gitignore |-> <<>>, augmentignore |-> <<>>,
             git_repo |-> FALSE, emitted |-> FALSE, ignored |-> FALSE]

\* the upload loop of codebase_retrieval has not been entered
NoError == [http_status |-> 0, body |-> <<>>]
AdaptIdle == [pc |-> "idle", batches |-> <<>>, retry_batch |-> <<>>, retries |-> 0,
              current_max_bytes |-> ToolMaxBatchBytes, uploaded_blobs |-> <<>>,
              e |-> NoError, resent |-> FALSE]

\* prompt_enhancer has not been called
EnhIdle == [pc |-> "idle", prompt |-> "", client |-> <<>>, workspace |-> FALSE,
            checkpoint |-> <<>>, requests |-> 0, result |-> "None", calls |-> 0]

\* sync_incremental has not been called
CallIdle == [pc |-> "idle", scan_done |-> FALSE, batches |-> <<>>, batch |-> <<>>,
             rest |-> <<>>, inflight |-> {}, pending |-> 0, next_id |-> 1,
             answers |-> <<>>, uploaded_files |-> <<>>, checkpoint_built |-> FALSE]

\* no model has been resolved
ResolverIdle == [pc |-> "idle", registry |-> <<>>, user_input |-> <<>>,
                 default_model |-> <<>>,
                 resolution |-> [kind |-> "None", id |-> "", display_name |-> <<>>,
                                 short_name |-> <<>>, matched_by |-> ""],
                 result |-> <<>>]

\* the startup context has not been built
StartupIdle == [pc |-> "new", env_auth |-> <<>>, env_token |-> <<>>, env_url |-> <<>>,
                file |-> <<>>, is_logged_in |-> FALSE, session |-> <<>>,
                validation |-> "None", model_config |-> <<>>, updated |-> <<>>,
                auth_status |-> "NotStarted", api_status |-> "NotStarted",
                feature_flags_status |-> "NotStarted",
                log |-> <<>>, result |-> "Pending"]

\* no status has been mapped
ApiIdle == [pc |-> "idle", http_status |-> 0, status |-> "None",
            fatal |-> FALSE, retryable |-> FALSE]

\* no request is being sent
HttpIdle == [pc |-> "idle", attempt |-> 0, answers |-> <<>>, waits |-> <<>>,
             result |-> "None", stub |-> <<>>]

\* the two syncs that share the cache
Syncs == {"full", "inc"}

\* nobody holds the lock, no sync has been started
RwIdle == [cache |-> EmptyCache, counter |-> 1000, committed |-> EmptyCache,
           writer |-> "none", readers |-> {},
           loaded |-> FALSE, loaded_seqs |-> {}, assigned |-> <<>>,
           pc |-> [p \in Syncs |-> "idle"],
           plan |-> [p \in Syncs |-> <<>>],
           todo |-> [p \in Syncs |-> <<>>],
           entry |-> [p \in Syncs |-> <<>>],
           snapshot |-> [p \in Syncs |-> <<>>]]

FileStates == [mtime : Mtimes, content : Contents]
Workspaces == UNION {[S -> FileStates] : S \in SUBSET FileNames}

\* a fresh checkout: every file present carries the first mtime
InitWorkspaces == {w \in Workspaces : \A f \in DOMAIN w : w[f].mtime = 1}

Init ==
    /\ fs \in InitWorkspaces
    /\ cache = EmptyCache
    /\ content_seq_counter = 1000
    /\ disk = EmptyCache
    /\ upload_status = NoStatus
    /\ acked = {}
    /\ obs = EmptyMap
    /\ inc = IncIdle
    /\ full = FullIdle
    /\ tool = ToolIdle
    /\ edits = 0
    /\ runs = 0
    /\ bc = EmptyCache
    /\ rw = RwIdle
    /\ http = HttpIdle
    /\ chunker = ChunkerIdle
    /\ runtime = RuntimeIdle
    /\ api = ApiIdle
    /\ startup = StartupIdle
    /\ resolver = ResolverIdle
    /\ call = CallIdle
    /\ enh = EnhIdle
    /\ adapt = AdaptIdle
    /\ walk = WalkIdle
    /\ sess = SessIdle
    /\ locks = LocksIdle
    /\ bgu = BguIdle

\* ghost: obs after committing files that were scanned in the snapshot scan_fs
Observe(o, files, scan_fs) ==
    [p \in (DOMAIN o) \cup {files[i].path : i \in DOMAIN files} |->
        IF \E i \in DOMAIN files : files[i].path = p
        THEN scan_fs[SrcFile(p)].mtime ELSE o[p]]
Forget(o, c) == [p \in (DOMAIN o) \cap (DOMAIN c.path_to_blob) |-> o[p]]

\* the answers that differ in effect
NormalOutcomes(n) ==
    {out \in Outcomes(n) :
        /\ (~out.ok => out.k = 0)
        /\ \A i \in 1..n : (out.ok /\ (i <= out.k \/ out.k > n)) => out.single[i] = "err"}

\* ------------------------------------------------------- the workspace changes
\* a file is written (new content and/or new mtime) or created
WriteFile(f, st) ==
    /\ edits < MaxEdits
    /\ IF f \in DOMAIN fs THEN fs[f] # st ELSE TRUE
    /\ fs' = Put(fs, f, st)
    /\ edits' = edits + 1
    /\ inc' = [inc EXCEPT !.dirty = TRUE, !.quiet = 0]
    /\ UNCHANGED <<rw, bgu, locks, sess, walk, adapt, enh, call, resolver, startup, api, runtime, http, chunker, cache, content_seq_counter, disk, upload_status, acked, obs,
                   full, tool, runs, bc>>

\* a file is deleted
DeleteFile(f) ==
    /\ edits < MaxEdits
    /\ f \in DOMAIN fs
    /\ fs' = Del(fs, f)
    /\ edits' = edits + 1
    /\ inc' = [inc EXCEPT !.dirty = TRUE, !.quiet = 0]
    /\ UNCHANGED <<rw, bgu, locks, sess, walk, adapt, enh, call, resolver, startup, api, runtime, http, chunker, cache, content_seq_counter, disk, upload_status, acked, obs,
                   full, tool, runs, bc>>

\* ------------------------------------------------------------ sync_incremental
Resting(pc) == pc \in {"idle", "done", "panicked"}

\* step 1: manager.scan_incremental() under the read lock
IncScan ==
    /\ Resting(inc.pc) /\ Resting(tool.pc)
    /\ runs < MaxRuns
    /\ runs' = runs + 1
    /\ inc' = [IncIdle EXCEPT
                 !.pc = "scanned",
                 !.scan = scan_workspace_incremental(fs, cache),
                 !.scan_fs = fs, !.scan_cache = cache,
                 !.prev_checkpoint = IF inc.pc = "done" THEN inc.checkpoint
                                    ELSE Checkpoint(<<>>),
                 !.prev_failed = IF inc.pc = "done" THEN inc.failed ELSE {},
                 !.quiet = IF inc.pc = "done" THEN inc.quiet ELSE 0]
    /\ UNCHANGED <<rw, bgu, locks, sess, walk, adapt, enh, call, resolver, startup, api, runtime, http, chunker, fs, cache, content_seq_counter, disk, upload_status, acked, obs,
                   full, tool, edits, bc>>

\* step 2: remove_deleted_from_cache, then create_upload_batches
IncRemove ==
    /\ inc.pc = "scanned"
    /\ cache' = IF inc.scan.deleted_paths # <<>>
                THEN remove_deleted_from_cache(cache, inc.scan.deleted_paths)
                ELSE cache
    /\ obs' = Forget(obs, cache')
    /\ inc' = [inc EXCEPT !.pc = "uploading",
                          !.batches = IF inc.scan.to_upload # <<>>
                                      THEN create_upload_batches(inc.scan.to_upload)
                                      ELSE <<>>]
    /\ UNCHANGED <<rw, bgu, locks, sess, walk, adapt, enh, call, resolver, startup, api, runtime, http, chunker, fs, content_seq_counter, disk, upload_status, acked,
                   full, tool, edits, runs, bc>>

FailedBlobs(batch, result) ==
    {batch[i] : i \in {j \in DOMAIN batch :
                         \A u \in DOMAIN result.uploaded_files :
                            result.uploaded_files[u] # batch[j]}}

\* step 3, once per batch: upload_batch_with_fallback, then mark_files_as_uploaded
IncBatch ==
    /\ inc.pc = "uploading" /\ inc.batches # <<>>
    /\ \E out \in NormalOutcomes(Len(Head(inc.batches))) :
         LET batch == Head(inc.batches)
             result == upload_batch_with_fallback(batch, out)
             marked == mark_files_as_uploaded(cache, content_seq_counter,
                                              result.uploaded_files)
             commit == ~result.panicked /\ result.uploaded_files # <<>>
         IN /\ acked' = acked \cup Acknowledged(batch, out)
            /\ cache' = IF commit THEN marked.cache ELSE cache
            /\ content_seq_counter' = IF commit THEN marked.counter
                                      ELSE content_seq_counter
            /\ obs' = IF commit THEN Observe(obs, result.uploaded_files, inc.scan_fs)
                      ELSE obs
            /\ inc' = [inc EXCEPT
                         !.pc = IF result.panicked THEN "panicked" ELSE "uploading",
                         !.batches = Tail(@),
                         !.uploaded_blobs = IF commit THEN @ \o result.blob_names ELSE @,
                         !.uploaded_count = IF commit
                                            THEN @ + result.batch_uploaded
                                                   + result.sequential_uploaded
                                            ELSE @,
                         !.reqs = @ \o result.requests,
                         !.last = [batch |-> batch, result |-> result,
                                   batch_failed |-> ~out.ok, names |-> out.k],
                         !.acked_now = @ \cup Acknowledged(batch, out),
                         !.failed = IF result.panicked THEN @
                                    ELSE @ \cup FailedBlobs(batch, result)]
    /\ UNCHANGED <<rw, bgu, locks, sess, walk, adapt, enh, call, resolver, startup, api, runtime, http, chunker, fs, disk, upload_status, full, tool, edits, runs, bc>>

\* steps 4 and 5: save_state (it may fail) and the checkpoint
IncFinish ==
    /\ inc.pc = "uploading" /\ inc.batches = <<>>
    /\ \E save_ok \in BOOLEAN :
         /\ disk' = IF inc.scan.to_upload # <<>> /\ save_ok THEN cache ELSE disk
         /\ inc' = [inc EXCEPT !.pc = "done",
                               !.checkpoint = Checkpoint(inc.scan.unchanged_blobs
                                                          \o inc.uploaded_blobs),
                               !.quiet = IF inc.dirty THEN 0 ELSE Min(@ + 1, 2),
                               !.save_failed = inc.scan.to_upload # <<>> /\ ~save_ok,
                               !.ret_cache = cache]
    /\ UNCHANGED <<rw, bgu, locks, sess, walk, adapt, enh, call, resolver, startup, api, runtime, http, chunker, fs, cache, content_seq_counter, upload_status, acked, obs,
                   full, tool, edits, runs, bc>>

\* ------------------------------------------------------------------ sync_full
\* a checkpoint that forgets the cache
get_checkpoint_empty(c) == Checkpoint(<<>>)

\* WorkspaceManager::get_checkpoint
get_checkpoint(c) == Checkpoint(SetToSeq(get_uploaded_blob_names(c)))

\* scan_and_collect, get_files_to_upload and the initial status
FullScan ==
    /\ full.pc = "idle"
    /\ LET files_to_upload == get_files_to_upload(fs, cache)
       IN IF files_to_upload = <<>>
          THEN /\ full' = [full EXCEPT !.pc = "done", !.checkpoint = get_checkpoint(cache),
                                       !.scan_fs = fs, !.scan_cache = cache,
                                       !.ret_cache = cache]
               /\ UNCHANGED upload_status
          ELSE /\ full' = [full EXCEPT !.pc = "uploading",
                                       !.batches = create_upload_batches(files_to_upload),
                                       !.total_files = Len(files_to_upload),
                                       !.scan_fs = fs, !.scan_cache = cache]
               /\ upload_status' = [total_files |-> Len(files_to_upload),
                                    uploaded_files |-> 0, is_uploading |-> TRUE,
                                    upload_complete |-> FALSE]
    /\ UNCHANGED <<rw, bgu, locks, sess, walk, adapt, enh, call, resolver, startup, api, runtime, http, chunker, fs, cache, content_seq_counter, disk, acked, obs, inc, tool,
                   edits, runs, bc>>

\* once per batch: upload_batch_with_fallback, mark_files_as_uploaded, progress
FullBatch ==
    /\ full.pc = "uploading" /\ full.batches # <<>>
    /\ \E out \in NormalOutcomes(Len(Head(full.batches))) :
         LET batch == Head(full.batches)
             result == upload_batch_with_fallback(batch, out)
             marked == mark_files_as_uploaded(cache, content_seq_counter,
                                              result.uploaded_files)
             commit == ~result.panicked /\ result.uploaded_files # <<>>
             count == full.uploaded_count + result.batch_uploaded
                        + result.sequential_uploaded
         IN /\ acked' = acked \cup Acknowledged(batch, out)
            /\ cache' = IF commit THEN marked.cache ELSE cache
            /\ content_seq_counter' = IF commit THEN marked.counter
                                      ELSE content_seq_counter
            /\ obs' = IF commit THEN Observe(obs, result.uploaded_files, full.scan_fs)
                      ELSE obs
            /\ upload_status' = IF commit
                                THEN [total_files |-> full.total_files,
                                      uploaded_files |-> count, is_uploading |-> TRUE,
                                      upload_complete |-> FALSE]
                                ELSE upload_status
            /\ full' = [full EXCEPT
                          !.pc = IF result.panicked THEN "panicked" ELSE "uploading",
                          !.batches = Tail(@),
                          !.uploaded_count = IF commit THEN count ELSE @]
    /\ UNCHANGED <<rw, bgu, locks, sess, walk, adapt, enh, call, resolver, startup, api, runtime, http, chunker, fs, disk, inc, tool, edits, runs, bc>>

\* save_state (it may fail), the final status and get_checkpoint
FullFinish ==
    /\ full.pc = "uploading" /\ full.batches = <<>>
    /\ \E save_ok \in BOOLEAN : disk' = IF save_ok THEN cache ELSE disk
    /\ upload_status' = [total_files |-> full.total_files,
                         uploaded_files |-> full.uploaded_count,
                         is_uploading |-> FALSE, upload_complete |-> TRUE]
    /\ full' = [full EXCEPT !.pc = "done", !.checkpoint = get_checkpoint(cache),
                            !.ret_cache = cache]
    /\ UNCHANGED <<rw, bgu, locks, sess, walk, adapt, enh, call, resolver, startup, api, runtime, http, chunker, fs, cache, content_seq_counter, acked, obs, inc, tool,
                   edits, runs, bc>>

\* -------------------------------------------------- codebase_retrieval (tool)
\* the incremental scan of the tool call
ToolScan ==
    /\ Resting(inc.pc) /\ Resting(tool.pc)
    /\ runs < MaxRuns
    /\ runs' = runs + 1
    /\ tool' = [ToolIdle EXCEPT !.pc = "scanned",
                                !.scan = scan_workspace_incremental(fs, cache),
                                !.scan_fs = fs]
    /\ inc' = [inc EXCEPT !.quiet = 0]
    /\ UNCHANGED <<rw, bgu, locks, sess, walk, adapt, enh, call, resolver, startup, api, runtime, http, chunker, fs, cache, content_seq_counter, disk, upload_status, acked, obs,
                   full, edits, bc>>

\* remove_deleted_from_cache, then batch_by_bytes with the initial byte cap
ToolRemove ==
    /\ tool.pc = "scanned"
    /\ cache' = IF tool.scan.deleted_paths # <<>>
                THEN remove_deleted_from_cache(cache, tool.scan.deleted_paths)
                ELSE cache
    /\ obs' = Forget(obs, cache')
    /\ tool' = [tool EXCEPT !.pc = "uploading",
                            !.batches = IF tool.scan.to_upload # <<>>
                                        THEN batch_by_bytes(tool.scan.to_upload,
                                                            ToolMaxBatchBytes)
                                        ELSE <<>>]
    /\ UNCHANGED <<rw, bgu, locks, sess, walk, adapt, enh, call, resolver, startup, api, runtime, http, chunker, fs, content_seq_counter, disk, upload_status, acked,
                   full, inc, edits, runs, bc>>

\* the batch the while loop is about to send, its retry count and the batches left
ToolCur ==
    IF tool.active
    THEN [batch |-> tool.retry_batch, retries |-> tool.retries, rest |-> tool.batches]
    ELSE [batch |-> Head(tool.batches), retries |-> 0, rest |-> Tail(tool.batches)]

ToolSending == tool.pc = "uploading" /\ (tool.active \/ tool.batches # <<>>)

\* one request of the while loop answered Ok with k names
ToolAttemptOk ==
    /\ ToolSending
    /\ \E k \in 0..Len(ToolCur.batch) :
         LET retry_batch == ToolCur.batch
             marked == mark_files_as_uploaded(cache, content_seq_counter, retry_batch)
         IN /\ acked' = acked \cup Range(SubSeq(Names(retry_batch), 1, k))
            /\ cache' = marked.cache
            /\ content_seq_counter' = marked.counter
            /\ obs' = Observe(obs, retry_batch, tool.scan_fs)
            /\ tool' = [tool EXCEPT
                          !.uploaded_blobs = @ \o SubSeq(Names(retry_batch), 1, k),
                          !.active = FALSE, !.batches = ToolCur.rest,
                          !.retry_batch = <<>>, !.retries = 0,
                          !.last_sent = retry_batch, !.last_k = k]
    /\ UNCHANGED <<rw, bgu, locks, sess, walk, adapt, enh, call, resolver, startup, api, runtime, http, chunker, fs, disk, upload_status, inc, full, edits, runs, bc>>

\* one request answered with a payload-too-large error
ToolAttemptTooLarge ==
    /\ ToolSending
    /\ IF tool.current_max_bytes > ToolMinBatchBytes
       THEN LET halved == Max(tool.current_max_bytes \div 2, ToolMinBatchBytes)
                sub_batches == batch_by_bytes(ToolCur.batch, halved)
            IN tool' = [tool EXCEPT
                          !.current_max_bytes = halved,
                          !.retry_batch = IF sub_batches # <<>> THEN Head(sub_batches)
                                          ELSE ToolCur.batch,
                          !.retries = ToolCur.retries + 1,
                          !.active = (ToolCur.retries + 1 < MAX_RETRIES),
                          !.batches = ToolCur.rest]
       ELSE tool' = [tool EXCEPT !.active = FALSE, !.batches = ToolCur.rest,
                                 !.retry_batch = <<>>, !.retries = 0]
    /\ UNCHANGED <<rw, bgu, locks, sess, walk, adapt, enh, call, resolver, startup, api, runtime, http, chunker, fs, cache, content_seq_counter, disk, upload_status, acked, obs,
                   inc, full, edits, runs, bc>>

\* one request answered with any other error
ToolAttemptErr ==
    /\ ToolSending
    /\ tool' = [tool EXCEPT !.active = FALSE, !.batches = ToolCur.rest,
                            !.retry_batch = <<>>, !.retries = 0]
    /\ UNCHANGED <<rw, bgu, locks, sess, walk, adapt, enh, call, resolver, startup, api, runtime, http, chunker, fs, cache, content_seq_counter, disk, upload_status, acked, obs,
                   inc, full, edits, runs, bc>>

\* save_state (it may fail) and the checkpoint sent with the query
ToolFinish ==
    /\ tool.pc = "uploading" /\ ~tool.active /\ tool.batches = <<>>
    /\ \E save_ok \in BOOLEAN :
         disk' = IF tool.scan.to_upload # <<>> /\ save_ok THEN cache ELSE disk
    /\ tool' = [tool EXCEPT !.pc = "done",
                            !.checkpoint = Checkpoint(tool.scan.unchanged_blobs
                                                      \o tool.uploaded_blobs)]
    /\ UNCHANGED <<rw, bgu, locks, sess, walk, adapt, enh, call, resolver, startup, api, runtime, http, chunker, fs, cache, content_seq_counter, upload_status, acked, obs,
                   inc, full, edits, runs, bc>>

\* ----------------------------------------------------------- specification
\* the workspace changes
Edit ==
    \/ \E f \in FileNames, st \in FileStates : WriteFile(f, st)
    \/ \E f \in FileNames : DeleteFile(f)

\* sync_incremental calls, one after another, on a workspace that changes
Next ==
    \/ Edit
    \/ IncScan
    \/ IncRemove
    \/ IncBatch
    \/ IncFinish

Spec == Init /\ [][Next]_vars

\* the same calls, each awaited to its end: a started sync_incremental keeps
\* being polled
SpecLive == Spec /\ WF_vars(IncRemove \/ IncBatch \/ IncFinish)

\* sync_incremental and codebase_retrieval calls in any order on one manager
NextTool ==
    \/ Edit
    \/ IncScan
    \/ IncRemove
    \/ IncBatch
    \/ IncFinish
    \/ ToolScan
    \/ ToolRemove
    \/ ToolAttemptOk
    \/ ToolAttemptTooLarge
    \/ ToolAttemptErr
    \/ ToolFinish

SpecTool == Init /\ [][NextTool]_vars

\* the background sync_full running beside sync_incremental calls
NextBg ==
    \/ IncScan
    \/ IncRemove
    \/ IncBatch
    \/ IncFinish
    \/ FullScan
    \/ FullBatch
    \/ FullFinish

SpecBg == Init /\ [][NextBg]_vars

\* one sync_incremental and one sync_full, in either order and one after the
\* other, on a workspace that changes
NextFull ==
    \/ Edit
    \/ IncScan /\ full.pc # "uploading" /\ runs = 0
    \/ IncRemove
    \/ IncBatch
    \/ IncFinish
    \/ FullScan /\ Resting(inc.pc)
    \/ FullBatch
    \/ FullFinish

SpecFull == Init /\ [][NextFull]_vars

\* ------------------------------------------------ BlobsCache on its own
\* paths and chunk contents as byte strings, one token per byte
CachePaths == {<<"a">>, <<"a", "b">>}
CacheContents == {<<"b", "c">>, <<"c">>, <<"d">>}
CacheSeqs == {1, 2}
CacheBlobs == {compute_blob_name(p, c) : p \in CachePaths, c \in CacheContents}

\* cache.update(path, mtime, blob_name, content_seq) for a blob of that path
CacheUpdate ==
    /\ \E p \in CachePaths, c \in CacheContents, m \in Mtimes, seq \in CacheSeqs :
         bc' = update(bc, p, m, compute_blob_name(p, c), seq)
    /\ UNCHANGED <<rw, bgu, locks, sess, walk, adapt, enh, call, resolver, startup, api, runtime, http, chunker, fs, cache, content_seq_counter, disk, upload_status, acked, obs,
                   inc, full, tool, edits, runs>>

\* cache.remove(path)
CacheRemove ==
    /\ \E p \in CachePaths : bc' = remove(bc, p)
    /\ UNCHANGED <<rw, bgu, locks, sess, walk, adapt, enh, call, resolver, startup, api, runtime, http, chunker, fs, cache, content_seq_counter, disk, upload_status, acked, obs,
                   inc, full, tool, edits, runs>>

InitCache == Init /\ fs = EmptyMap

NextCache ==
    \/ CacheUpdate
    \/ CacheRemove

SpecCache == InitCache /\ [][NextCache]_vars

\* --------------------------------- the manager's cache operations on their own
MaxMarks == 2

RECURSIVE RebuildLoop(_, _, _)
\* the for loop of rebuild_reverse_index over the forward map
RebuildLoop(c, paths, index) ==
    IF paths = <<>> THEN index
    ELSE RebuildLoop(c, Tail(paths),
                     Put(index, c.path_to_blob[Head(paths)].blob_name, Head(paths)))

\* BlobsCache::rebuild_reverse_index
rebuild_reverse_index(c) ==
    [c EXCEPT !.blob_to_path = RebuildLoop(c, SetToSeq(DOMAIN c.path_to_blob), EmptyMap)]

\* BlobsCache::load of the persisted cache file
load(file) ==
    IF file.blob_to_path = EmptyMap /\ file.path_to_blob # EmptyMap
    THEN rebuild_reverse_index(file) ELSE file

\* a load_state that sets the counter to the largest content_seq itself
CounterAtLargest(c) ==
    LET seqs == {c.path_to_blob[p].content_seq : p \in DOMAIN c.path_to_blob}
    IN IF seqs = {} THEN 1000 ELSE CHOOSE m \in seqs : \A n \in seqs : n <= m

\* the counter load_state sets: one past the largest content_seq, 1001 when none
CounterAfterLoad(c) ==
    LET seqs == {c.path_to_blob[p].content_seq : p \in DOMAIN c.path_to_blob}
    IN (IF seqs = {} THEN 1000 ELSE CHOOSE m \in seqs : \A n \in seqs : n <= m) + 1

RECURSIVE MarkAsLoop(_, _, _)
\* the for loop of mark_as_uploaded; the path recorded is the empty string
MarkAsLoop(c, blob_names, i) ==
    IF i > Len(blob_names) THEN c
    ELSE MarkAsLoop(IF ~has_blob(c, blob_names[i])
                    THEN [c EXCEPT !.blob_to_path = Put(@, blob_names[i], <<>>)]
                    ELSE c,
                    blob_names, i + 1)

\* WorkspaceManager::mark_as_uploaded
mark_as_uploaded(c, counter, blob_names) ==
    [cache |-> MarkAsLoop(c, blob_names, 1), counter |-> counter + Len(blob_names)]

\* BlobsCache::retain_blobs
retain_blobs(c, valid_blobs) ==
    LET kept == {p \in DOMAIN c.path_to_blob : c.path_to_blob[p].blob_name \in valid_blobs}
        deleted == {c.path_to_blob[p].blob_name : p \in (DOMAIN c.path_to_blob) \ kept}
    IN [path_to_blob |-> [p \in kept |-> c.path_to_blob[p]],
        blob_to_path |-> [b \in (DOMAIN c.blob_to_path) \ deleted |-> c.blob_to_path[b]]]

\* the blobs the manager is handed: one per path and content
MgrBlobs == {FileBlob(p, c, 1) : p \in CachePaths, c \in CacheContents}

MgrUnchanged == <<bgu, locks, sess, walk, adapt, enh, call, resolver, startup, api, runtime, rw, http, chunker, fs, upload_status, acked, obs, inc, full, tool, edits, runs, bc>>

\* WorkspaceManager::load_state
MgrLoadState ==
    /\ cache' = load(disk)
    /\ content_seq_counter' = CounterAfterLoad(cache')
    /\ UNCHANGED <<disk, MgrUnchanged>>

\* WorkspaceManager::save_state
MgrSaveState ==
    /\ disk' = cache
    /\ UNCHANGED <<cache, content_seq_counter, MgrUnchanged>>

\* WorkspaceManager::mark_files_as_uploaded with one file
MgrMarkFiles ==
    /\ content_seq_counter < 1000 + MaxMarks
    /\ \E blob \in MgrBlobs :
         LET marked == mark_files_as_uploaded(cache, content_seq_counter, <<blob>>)
         IN cache' = marked.cache /\ content_seq_counter' = marked.counter
    /\ UNCHANGED <<disk, MgrUnchanged>>

\* WorkspaceManager::mark_as_uploaded with one blob name
MgrMarkAs ==
    /\ content_seq_counter < 1000 + MaxMarks
    /\ \E b \in CacheBlobs :
         LET marked == mark_as_uploaded(cache, content_seq_counter, <<b>>)
         IN cache' = marked.cache /\ content_seq_counter' = marked.counter
    /\ UNCHANGED <<disk, MgrUnchanged>>

\* WorkspaceManager::remove_deleted_from_cache
MgrRemoveDeleted ==
    /\ \E p \in CachePaths : cache' = remove_deleted_from_cache(cache, <<p>>)
    /\ UNCHANGED <<content_seq_counter, disk, MgrUnchanged>>

\* WorkspaceManager::sync_cache_with_filesystem: retain the blobs of the live files
MgrRetain ==
    /\ \E valid_blobs \in SUBSET CacheBlobs : cache' = retain_blobs(cache, valid_blobs)
    /\ UNCHANGED <<content_seq_counter, disk, MgrUnchanged>>

NextMgr ==
    \/ MgrLoadState
    \/ MgrSaveState
    \/ MgrMarkFiles
    \/ MgrMarkAs
    \/ MgrRemoveDeleted
    \/ MgrRetain

SpecMgr == InitCache /\ [][NextMgr]_vars

\* ------------------------------------- the cache behind its reader-writer lock
\* the blobs the two syncs upload
RwBlobs == {FileBlob(<<"a">>, <<"b", "c">>, 1), FileBlob(<<"a", "b">>, <<"c">>, 1),
            FileBlob(<<"a">>, <<"d">>, 1)}

\* one read of the cache under the read lock (a scan, save_state, get_checkpoint)
ReadOp == [kind |-> "read"]
\* mark_files_as_uploaded(files) and remove_deleted_from_cache(paths)
MarkOp(files) == [kind |-> "mark", files |-> files]
RemoveOp(paths) == [kind |-> "remove", paths |-> paths]

\* the cache operations of one sync_incremental call, in order
IncPlans ==
    {<<ReadOp>> \o removal \o <<MarkOp(<<blob>>), ReadOp>> :
        removal \in {<<>>} \cup {<<RemoveOp(<<p>>)>> : p \in CachePaths},
        blob \in RwBlobs}

\* the cache operations of one sync_full call, in order
FullPlans == {<<ReadOp, MarkOp(<<blob>>), ReadOp, ReadOp>> : blob \in RwBlobs}

\* the writes of BlobsCache::update for one file, in program order
UpdateSteps(file) ==
    <<[op |-> "drop_old_reverse", path |-> file.path, blob_name |-> file.blob_name],
      [op |-> "insert_forward", path |-> file.path, blob_name |-> file.blob_name,
       mtime |-> file.mtime],
      [op |-> "insert_reverse", path |-> file.path, blob_name |-> file.blob_name]>>

\* the writes of the loop body of remove_deleted_from_cache for one path
RemoveSteps(path) ==
    <<[op |-> "remove_forward", path |-> path], [op |-> "remove_reverse"]>>

\* the writes an operation makes while it holds the write lock
StepsOf(operation) ==
    IF operation.kind = "mark"
    THEN Flatten([i \in DOMAIN operation.files |-> UpdateSteps(operation.files[i])])
    ELSE Flatten([i \in DOMAIN operation.paths |-> RemoveSteps(operation.paths[i])])

\* the cache an operation leaves when it runs alone
ResultOf(operation, c, counter) ==
    IF operation.kind = "mark"
    THEN mark_files_as_uploaded(c, counter, operation.files).cache
    ELSE remove_deleted_from_cache(c, operation.paths)

\* one write to one of the two maps; entry is the Option holding the removed entry
ApplyStep(step, c, counter, entry) ==
    CASE step.op = "drop_old_reverse" ->
           [cache |-> IF /\ step.path \in DOMAIN c.path_to_blob
                         /\ c.path_to_blob[step.path].blob_name # step.blob_name
                      THEN [c EXCEPT !.blob_to_path =
                                Del(@, c.path_to_blob[step.path].blob_name)]
                      ELSE c,
            counter |-> counter, entry |-> entry]
      [] step.op = "insert_forward" ->
           [cache |-> [c EXCEPT !.path_to_blob =
                          Put(@, step.path, FileEntry(step.mtime, step.blob_name, counter))],
            counter |-> counter + 1, entry |-> entry]
      [] step.op = "insert_reverse" ->
           [cache |-> [c EXCEPT !.blob_to_path = Put(@, step.blob_name, step.path)],
            counter |-> counter, entry |-> entry]
      [] step.op = "remove_forward" ->
           IF step.path \in DOMAIN c.path_to_blob
           THEN [cache |-> [c EXCEPT !.path_to_blob = Del(@, step.path)],
                 counter |-> counter, entry |-> <<c.path_to_blob[step.path]>>]
           ELSE [cache |-> c, counter |-> counter, entry |-> <<>>]
      [] step.op = "remove_reverse" ->
           [cache |-> IF entry # <<>>
                      THEN [c EXCEPT !.blob_to_path = Del(@, entry[1].blob_name)]
                      ELSE c,
            counter |-> counter, entry |-> <<>>]

\* blobs_cache.read().await returns once no writer holds the lock
read_lock_free == rw.writer = "none"

\* a write lock handed out while readers still hold the lock
write_lock_ignoring_readers == rw.writer = "none"

\* blobs_cache.write().await returns once nobody holds the lock
write_lock_free == rw.writer = "none" /\ rw.readers = {}

RwUnchanged == <<bgu, locks, sess, walk, adapt, enh, call, resolver, startup, api, runtime, http, chunker, fs, cache, content_seq_counter, disk, upload_status, acked, obs,
                 inc, full, tool, edits, runs, bc>>

\* cache files a previous process may have saved
RwFiles ==
    {EmptyCache,
     update(EmptyCache, <<"a">>, 1, <<"a", "b", "c">>, 1001),
     update(update(EmptyCache, <<"a">>, 1, <<"a", "d">>, 1003), <<"a", "b">>, 1, <<"a", "b", "c">>, 1001)}

\* load_state at startup, before any sync runs
RwLoad ==
    /\ ~rw.loaded
    /\ \A p \in Syncs : rw.pc[p] = "idle"
    /\ \E file \in RwFiles :
         rw' = [rw EXCEPT
                  !.loaded = TRUE,
                  !.cache = load(file),
                  !.committed = load(file),
                  !.counter = CounterAfterLoad(load(file)),
                  !.loaded_seqs = {file.path_to_blob[q].content_seq :
                                     q \in DOMAIN file.path_to_blob}]
    /\ UNCHANGED RwUnchanged

\* a sync is invoked; the uploads and deletions it will see are its inputs
RwStart(p) ==
    /\ rw.pc[p] = "idle"
    /\ \E plan \in IF p = "inc" THEN IncPlans ELSE FullPlans :
         rw' = [rw EXCEPT !.pc[p] = "ready", !.plan[p] = plan]
    /\ UNCHANGED RwUnchanged

\* the sync takes the read lock for its next operation; the first read of a
\* sync is its scan, and snapshot keeps the cache that scan was given
RwAcquireRead(p) ==
    /\ rw.pc[p] = "ready" /\ rw.plan[p] # <<>>
    /\ Head(rw.plan[p]).kind = "read"
    /\ read_lock_free
    /\ rw' = [rw EXCEPT !.pc[p] = "reading", !.readers = @ \cup {p},
                        !.snapshot[p] = IF @ = <<>> THEN <<rw.cache>> ELSE @]
    /\ UNCHANGED RwUnchanged

\* the read guard is dropped
RwReleaseRead(p) ==
    /\ rw.pc[p] = "reading"
    /\ rw' = [rw EXCEPT !.pc[p] = "ready", !.readers = @ \ {p}, !.plan[p] = Tail(@)]
    /\ UNCHANGED RwUnchanged

\* the sync takes the write lock for its next operation
RwAcquireWrite(p) ==
    /\ rw.pc[p] = "ready" /\ rw.plan[p] # <<>>
    /\ Head(rw.plan[p]).kind # "read"
    /\ write_lock_free
    /\ rw' = [rw EXCEPT !.pc[p] = "writing", !.writer = p,
                        !.todo[p] = StepsOf(Head(rw.plan[p])),
                        !.committed = ResultOf(Head(rw.plan[p]), rw.cache, rw.counter)]
    /\ UNCHANGED RwUnchanged

\* the holder of the write lock makes its next write to one map
RwWriteStep(p) ==
    /\ rw.pc[p] = "writing" /\ rw.todo[p] # <<>>
    /\ LET after == ApplyStep(Head(rw.todo[p]), rw.cache, rw.counter, rw.entry[p])
       IN rw' = [rw EXCEPT !.cache = after.cache, !.counter = after.counter,
                           !.entry[p] = after.entry, !.todo[p] = Tail(@),
                           !.assigned = IF Head(rw.todo[p]).op = "insert_forward"
                                        THEN Append(@, rw.counter) ELSE @]
    /\ UNCHANGED RwUnchanged

\* the write guard is dropped
RwReleaseWrite(p) ==
    /\ rw.pc[p] = "writing" /\ rw.todo[p] = <<>>
    /\ rw' = [rw EXCEPT !.pc[p] = "ready", !.writer = "none", !.plan[p] = Tail(@)]
    /\ UNCHANGED RwUnchanged

NextRw ==
    \/ RwLoad
    \/ \E p \in Syncs : RwStart(p)
    \/ \E p \in Syncs : RwAcquireRead(p)
    \/ \E p \in Syncs : RwReleaseRead(p)
    \/ \E p \in Syncs : RwAcquireWrite(p)
    \/ \E p \in Syncs : RwWriteStep(p)
    \/ \E p \in Syncs : RwReleaseWrite(p)

SpecRw == InitCache /\ [][NextRw]_vars

\* ------------------------------------------------- the retrying transport
RETRY_BASE_DELAY_SECS == 1
HTTP_MAX_RETRIES == 3
RETRY_JITTER_DIVISOR == 4
\* the stubbed server answers a retriable status up to this many times
MaxStubFailures == 5

\* the statuses a server may answer and the classes of a failed send
Statuses == {200, 400, 401, 403, 408, 413, 426, 429, 499, 500, 501, 502, 503, 504}
SendErrors == {"connect", "timeout", "body", "request"}
Answers == [kind : {"status"}, code : Statuses] \cup [kind : {"error"}, class : SendErrors]

\* StatusCode::is_success
is_success(status) == 200 <= status /\ status <= 299

\* a transport that retries on every server error status
is_retriable_status_5xx(status) == status = 408 \/ status = 429 \/ status >= 500

is_retriable_status(status) == status \in {408, 429, 500, 502, 503, 504}

is_retriable_send_error(class) == class \in {"timeout", "connect", "body"}

\* a backoff that starts doubling one attempt early
retry_base_delay_early(attempt) == RETRY_BASE_DELAY_SECS * (2 ^ (attempt + 1)) * 1000

\* retry_base_delay, in milliseconds (the shift does not overflow below 64 attempts)
retry_base_delay(attempt) == RETRY_BASE_DELAY_SECS * (2 ^ attempt) * 1000

\* the jitters tried out of gen_range(0..=max_jitter_ms)
JitterSamples(max_jitter_ms) == {0, max_jitter_ms \div 2, max_jitter_ms}

\* add_jitter: the delays it may return, in milliseconds
add_jitter(delay) ==
    LET max_jitter_ms == delay \div RETRY_JITTER_DIVISOR
    IN IF max_jitter_ms = 0 THEN {delay}
       ELSE {delay + jitter_ms : jitter_ms \in JitterSamples(max_jitter_ms)}

\* a loop that allows one retry too few
should_retry_short(answer, attempt) ==
    /\ attempt < HTTP_MAX_RETRIES - 1
    /\ IF answer.kind = "status" THEN is_retriable_status(answer.code)
       ELSE is_retriable_send_error(answer.class)

\* should_retry of both arms of the match
should_retry(answer, attempt) ==
    /\ attempt < HTTP_MAX_RETRIES
    /\ IF answer.kind = "status" THEN is_retriable_status(answer.code)
       ELSE is_retriable_send_error(answer.class)

\* what the server answers to the attempt: anything (stub <<>>), or, for the
\* stub <<k>> that fails k times, a retriable status for the first k attempts
\* and then success
AnswersTo(stub, attempt) ==
    IF stub = <<>> THEN Answers
    ELSE {[kind |-> "status", code |-> IF attempt < stub[1] THEN 503 ELSE 200]}

HttpUnchanged == <<bgu, locks, sess, walk, adapt, enh, call, resolver, startup, api, runtime, rw, chunker, fs, cache, content_seq_counter, disk, upload_status, acked, obs,
                   inc, full, tool, edits, runs, bc>>

\* send_with_retry is called
HttpCall ==
    /\ http.pc = "idle"
    /\ \E stub \in {<<>>} \cup {<<k>> : k \in 0..MaxStubFailures} :
         http' = [http EXCEPT !.pc = "sending", !.stub = stub]
    /\ UNCHANGED HttpUnchanged

\* one pass of the for loop: send, then return or go to sleep
HttpSend ==
    /\ http.pc = "sending"
    /\ IF http.attempt >= HTTP_MAX_RETRIES + 1
       THEN http' = [http EXCEPT !.pc = "unreachable"]
       ELSE \E answer \in AnswersTo(http.stub, http.attempt) :
              LET sent == [http EXCEPT !.answers = Append(@, answer)]
              IN IF answer.kind = "status" /\ is_success(answer.code)
                 THEN http' = [sent EXCEPT !.pc = "returned", !.result = "Ok(success)"]
                 ELSE IF should_retry(answer, http.attempt)
                      THEN \E delay \in add_jitter(retry_base_delay(http.attempt)) :
                             http' = [sent EXCEPT !.pc = "sleeping",
                                                  !.waits = Append(@, delay)]
                      ELSE http' = [sent EXCEPT
                                      !.pc = "returned",
                                      !.result = IF answer.kind = "status"
                                                 THEN "Ok(failure)" ELSE "Err"]
    /\ UNCHANGED HttpUnchanged

\* sleep(delay) is over: continue with the next attempt
HttpWake ==
    /\ http.pc = "sleeping"
    /\ http' = [http EXCEPT !.pc = "sending", !.attempt = @ + 1]
    /\ UNCHANGED HttpUnchanged

NextHttp ==
    \/ HttpCall
    \/ HttpSend
    \/ HttpWake

\* the runtime keeps polling the call: a send completes and a sleep ends
SpecHttp == InitCache /\ [][NextHttp]_vars /\ WF_vars(NextHttp)

\* ----------------------------------------- files through chunker and batcher
\* MAX_READABLE_FILE_SIZE is 8 times MAX_BLOB_SIZE (1 MiB against 128 KiB)
MAX_READABLE_FILE_SIZE == 8 * BlobSize
\* lines per file read, and files read
MaxLines == 3
MaxFiles == 2

ChunkerPaths == {FileX, <<"y">>}
RECURSIVE SeqsUpTo(_, _)
SeqsUpTo(S, n) ==
    IF n = 0 THEN {<<>>}
    ELSE LET shorter == SeqsUpTo(S, n - 1)
         IN shorter \cup {Append(q, e) : q \in shorter, e \in S}
\* the UTF-8 files process_file reads: the larger ones are skipped
ChunkerContents ==
    {content \in SeqsUpTo({"p", "q", "r", "s"}, MaxLines) :
        ContentBytes(content) <= MAX_READABLE_FILE_SIZE}

ChunkerUnchanged == <<bgu, locks, sess, walk, adapt, enh, call, resolver, startup, api, runtime, rw, http, fs, cache, content_seq_counter, disk, upload_status,
                      acked, obs, inc, full, tool, edits, runs, bc>>

\* the walk reaches one more file: process_file appends its blobs to to_upload
ChunkerProcess ==
    /\ chunker.pc = "scanning"
    /\ Cardinality(chunker.done) < MaxFiles
    /\ \E path \in ChunkerPaths \ chunker.done, content \in ChunkerContents :
         LET blobs == process_file(path, [content |-> content, mtime |-> 1])
         IN chunker' = [chunker EXCEPT !.done = @ \cup {path},
                                       !.path = path,
                                       !.content = content,
                                       !.file_blobs = blobs,
                                       !.to_upload = @ \o blobs]
    /\ UNCHANGED ChunkerUnchanged

\* the scan is over: create_upload_batches(&to_upload)
ChunkerBatch ==
    /\ chunker.pc = "scanning"
    /\ chunker.to_upload # <<>>
    /\ chunker' = [chunker EXCEPT !.pc = "batched",
                                  !.batches = create_upload_batches(chunker.to_upload)]
    /\ UNCHANGED ChunkerUnchanged

NextChunker ==
    \/ ChunkerProcess
    \/ ChunkerBatch

SpecChunker == InitCache /\ [][NextChunker]_vars

\* ------------------------------------------------------- the runtime singleton
\* set_runtime calls and get_runtime calls made in one behaviour
MaxSets == 3
MaxGets == 2
\* the Runtime values (state, client) a caller may pass
RuntimeValues == {"rt1", "rt2"}

\* a cell whose set replaces the stored value
cell_set_overwriting(cell, value) == [cell |-> <<value>>, ok |-> TRUE]

\* OnceLock::set: stores the value when the cell is empty, Err otherwise
once_lock_set(cell, value) ==
    IF cell = <<>> THEN [cell |-> <<value>>, ok |-> TRUE]
    ELSE [cell |-> cell, ok |-> FALSE]

RuntimeUnchanged == <<bgu, locks, sess, walk, adapt, enh, call, resolver, startup, api, rw, http, chunker, fs, cache, content_seq_counter, disk, upload_status,
                      acked, obs, inc, full, tool, edits, runs, bc>>

\* set_runtime(state, client) is entered: Runtime::new builds the value
SetRuntimeCall(t) ==
    /\ runtime.pc[t] = "idle"
    /\ runtime.sets < MaxSets
    /\ \E value \in RuntimeValues :
         runtime' = [runtime EXCEPT !.pc[t] = "setting", !.arg[t] = value,
                                    !.sets = @ + 1]
    /\ UNCHANGED RuntimeUnchanged

\* RUNTIME.set(..): applied, or is_err() and the warning
SetRuntimeSet(t) ==
    /\ runtime.pc[t] = "setting"
    /\ LET set == once_lock_set(runtime.cell, runtime.arg[t])
       IN runtime' = [runtime EXCEPT
                        !.pc[t] = "idle",
                        !.cell = set.cell,
                        !.applied = IF set.ok
                                    THEN Append(@, [thread |-> t, value |-> runtime.arg[t]])
                                    ELSE @,
                        !.ignored = IF set.ok THEN @ ELSE @ + 1]
    /\ UNCHANGED RuntimeUnchanged

\* get_runtime(): RUNTIME.get(); the ghost keeps what each call returned and
\* how many sets had been applied when it did
GetRuntime(t) ==
    /\ runtime.pc[t] = "idle"
    /\ Len(runtime.gets) < MaxGets
    /\ runtime' = [runtime EXCEPT
                     !.gets = Append(@, [value |-> runtime.cell,
                                         applied |-> Len(runtime.applied)])]
    /\ UNCHANGED RuntimeUnchanged

NextRuntime ==
    \/ \E t \in Threads : SetRuntimeCall(t)
    \/ \E t \in Threads : SetRuntimeSet(t)
    \/ \E t \in Threads : GetRuntime(t)

SpecRuntime == InitCache /\ [][NextRuntime]_vars

\* --------------------------------------------------------------- ApiStatus
\* ApiStatus::from_i32
from_i32(code) ==
    CASE code = 0 -> "Ok"
      [] code = 1 -> "Cancelled"
      [] code = 2 -> "Unknown"
      [] code = 3 -> "Unavailable"
      [] code = 4 -> "Unimplemented"
      [] code = 5 -> "InvalidArgument"
      [] code = 6 -> "ResourceExhausted"
      [] code = 7 -> "Unauthenticated"
      [] code = 8 -> "PermissionDenied"
      [] code = 9 -> "DeadlineExceeded"
      [] code = 10 -> "AugmentTooLarge"
      [] code = 11 -> "AugmentClientTimeout"
      [] code = 12 -> "AugmentUpgradeRequired"
      [] OTHER -> "Unknown"

\* a mapping whose 5xx arm comes before the 504 arm
from_http_status_range_first(http_status) ==
    CASE http_status \in 200..299 -> "Ok"
      [] http_status \in 500..599 -> "Unavailable"
      [] http_status = 400 -> "InvalidArgument"
      [] http_status = 401 -> "Unauthenticated"
      [] http_status = 403 -> "PermissionDenied"
      [] http_status = 404 -> "Unimplemented"
      [] http_status = 408 -> "AugmentClientTimeout"
      [] http_status = 413 -> "AugmentTooLarge"
      [] http_status = 426 -> "AugmentUpgradeRequired"
      [] http_status = 429 -> "ResourceExhausted"
      [] http_status = 499 -> "Cancelled"
      [] OTHER -> "Unknown"

\* ApiStatus::from_http_status: the first matching arm decides
from_http_status(http_status) ==
    IF http_status \in 200..299 THEN "Ok"
    ELSE IF http_status = 400 THEN "InvalidArgument"
    ELSE IF http_status = 401 THEN "Unauthenticated"
    ELSE IF http_status = 403 THEN "PermissionDenied"
    ELSE IF http_status = 404 THEN "Unimplemented"
    ELSE IF http_status = 408 THEN "AugmentClientTimeout"
    ELSE IF http_status = 413 THEN "AugmentTooLarge"
    ELSE IF http_status = 426 THEN "AugmentUpgradeRequired"
    ELSE IF http_status = 429 THEN "ResourceExhausted"
    ELSE IF http_status = 499 THEN "Cancelled"
    ELSE IF http_status = 504 THEN "DeadlineExceeded"
    ELSE IF http_status \in 500..599 THEN "Unavailable"
    ELSE "Unknown"

\* ApiStatus::is_fatal
is_fatal(status) ==
    status \in {"Unauthenticated", "PermissionDenied", "AugmentUpgradeRequired"}

\* ApiStatus::is_retryable
is_retryable(status) == status \in {"Cancelled", "Unavailable"}

\* the HTTP status codes a response may carry
HttpStatusCodes == 100..599

ApiUnchanged == <<bgu, locks, sess, walk, adapt, enh, call, resolver, startup, rw, runtime, http, chunker, fs, cache, content_seq_counter, disk,
                  upload_status, acked, obs, inc, full, tool, edits, runs, bc>>

\* a response status is mapped and classified
MapHttpStatus ==
    /\ \E http_status \in HttpStatusCodes :
         LET status == from_http_status(http_status)
         IN api' = [pc |-> "mapped", http_status |-> http_status, status |-> status,
                    fatal |-> is_fatal(status), retryable |-> is_retryable(status)]
    /\ UNCHANGED ApiUnchanged

NextApi == MapHttpStatus

SpecApi == InitCache /\ [][NextApi]_vars

\* ----------------------------------------------------------------- startup
DEFAULT_SCOPES == <<"read", "write">>

\* what serde_json::from_str::<SessionData> makes of a string: not a SessionData,
\* or a SessionData whose fields may be empty
RawSessions(tag) ==
    { [parsed |-> FALSE, access_token |-> "", tenant_url |-> "", scopes |-> <<>>] }
    \cup { [parsed |-> TRUE, access_token |-> t, tenant_url |-> u, scopes |-> s] :
             t \in {"", tag}, u \in {"", "url-" \o tag}, s \in {<<>>, <<"read">>} }

\* an environment variable: unset, or set to a string
EnvAuths == {<<>>} \cup { <<raw>> : raw \in RawSessions("json") }
EnvTokens == {<<>>, <<"">>, <<"pair">>}
EnvUrls == {<<>>, <<"">>, <<"url-pair">>}

\* the session file: missing, unreadable, or holding a string
SessionFiles ==
    {<<>>}
    \cup { <<[readable |-> FALSE, raw |-> raw]>> :
             raw \in { r \in RawSessions("file") : ~r.parsed } }
    \cup { <<[readable |-> TRUE, raw |-> raw]>> : raw \in RawSessions("file") }

ValidationResults ==
    {"Ok", "InvalidCredentials", "ConnectionError", "ServerError", "InvalidUrl"}

\* GetModelsResponse.status: absent, or an i32 code
CatalogStatuses == {<<>>} \cup { <<code>> : code \in 0..13 }

\* a parser that accepts any well-formed SessionData
parse_session_unvalidated(raw) ==
    IF raw.parsed
    THEN <<[access_token |-> raw.access_token, tenant_url |-> raw.tenant_url,
            scopes |-> raw.scopes]>>
    ELSE <<>>

\* AuthSessionStore::parse_session_from_string
parse_session_from_string(raw) ==
    IF raw.parsed
    THEN IF raw.access_token = "" \/ raw.tenant_url = "" \/ raw.scopes = <<>>
         THEN <<>>
         ELSE <<[access_token |-> raw.access_token, tenant_url |-> raw.tenant_url,
                 scopes |-> raw.scopes]>>
    ELSE <<>>

\* the (token, url) pair of environment variables is usable
env_pair_set(env_token, env_url) ==
    /\ env_token # <<>> /\ env_url # <<>>
    /\ env_token[1] # "" /\ env_url[1] # ""

\* AuthSessionStore::initialize_login_status
initialize_login_status(env_auth, env_token, env_url, file) ==
    IF env_auth # <<>> /\ parse_session_from_string(env_auth[1]) # <<>> THEN TRUE
    ELSE IF env_pair_set(env_token, env_url) THEN TRUE
    ELSE IF file = <<>> THEN FALSE
    ELSE IF ~file[1].readable THEN FALSE
    ELSE parse_session_from_string(file[1].raw) # <<>>

\* AuthSessionStore::get_session: the outcome (Err, or Ok of an optional
\* session) and the session file it leaves (an invalid file is removed)
get_session(env_auth, env_token, env_url, file) ==
    IF env_auth # <<>> /\ parse_session_from_string(env_auth[1]) # <<>>
    THEN [err |-> FALSE, session |-> parse_session_from_string(env_auth[1]),
          file |-> file]
    ELSE IF env_pair_set(env_token, env_url)
    THEN [err |-> FALSE,
          session |-> <<[access_token |-> env_token[1], tenant_url |-> env_url[1],
                         scopes |-> DEFAULT_SCOPES]>>,
          file |-> file]
    ELSE IF file = <<>> THEN [err |-> FALSE, session |-> <<>>, file |-> file]
    ELSE IF ~file[1].readable THEN [err |-> TRUE, session |-> <<>>, file |-> file]
    ELSE IF parse_session_from_string(file[1].raw) # <<>>
    THEN [err |-> FALSE, session |-> parse_session_from_string(file[1].raw),
          file |-> file]
    ELSE [err |-> FALSE, session |-> <<>>, file |-> <<>>]

\* a metadata update whose failure ends the startup
update_session_propagated(updated) == IF updated THEN "StartupState" ELSE "Other"

\* ensure_all after metadata_manager.update_session(): an Err is logged and
\* ignored
update_session_outcome(updated) == "StartupState"

StartupUnchanged == <<bgu, locks, sess, walk, adapt, enh, call, resolver, api, rw, runtime, http, chunker, fs, cache, content_seq_counter,
                      disk, upload_status, acked, obs, inc, full, tool, edits, runs, bc>>

\* AuthSessionStore::new in some environment
AuthSessionStoreNew ==
    /\ startup.pc = "new"
    /\ \E env_auth \in EnvAuths, env_token \in EnvTokens, env_url \in EnvUrls,
          file \in SessionFiles :
         startup' = [startup EXCEPT
            !.pc = "ready", !.env_auth = env_auth, !.env_token = env_token,
            !.env_url = env_url, !.file = file,
            !.is_logged_in = initialize_login_status(env_auth, env_token, env_url, file)]
    /\ UNCHANGED StartupUnchanged

\* ensure_all, step 1: ensure_auth
EnsureAuth ==
    /\ startup.pc = "ready"
    /\ LET got == get_session(startup.env_auth, startup.env_token, startup.env_url,
                              startup.file)
           logged == Append(startup.log, "ensure_auth")
       IN IF ~startup.is_logged_in
          THEN startup' = [startup EXCEPT !.pc = "returned", !.log = logged,
                              !.auth_status = "Failed", !.result = "NotLoggedIn"]
          ELSE IF got.err
          THEN startup' = [startup EXCEPT !.pc = "returned", !.log = logged,
                              !.auth_status = "Failed", !.result = "Other"]
          ELSE IF got.session = <<>>
          THEN startup' = [startup EXCEPT !.pc = "returned", !.log = logged,
                              !.file = got.file,
                              !.auth_status = "Failed", !.result = "NotLoggedIn"]
          ELSE startup' = [startup EXCEPT !.pc = "validate_connection", !.log = logged,
                              !.session = got.session, !.auth_status = "Success"]
    /\ UNCHANGED StartupUnchanged

\* ensure_all, step 2: ensure_api, the connection probe
ValidateConnection ==
    /\ startup.pc = "validate_connection"
    /\ \E validation \in ValidationResults :
         startup' = [startup EXCEPT
            !.log = Append(@, "validate_connection"),
            !.validation = validation,
            !.api_status = IF validation = "Ok" THEN "InProgress" ELSE "Failed",
            !.pc = IF validation = "Ok" THEN "get_models" ELSE "returned",
            !.result = IF validation = "Ok" THEN @ ELSE validation]
    /\ UNCHANGED StartupUnchanged

\* ensure_all, step 2: ensure_api, the catalog fetch
GetModels ==
    /\ startup.pc = "get_models"
    /\ \/ startup' = [startup EXCEPT
             !.log = Append(@, "get_models"), !.api_status = "Failed",
             !.pc = "returned", !.result = "ConnectionError"]
       \/ \E status \in CatalogStatuses :
            startup' = [startup EXCEPT
               !.log = Append(@, "get_models"), !.api_status = "Success",
               !.model_config = <<[status |-> status]>>,
               !.pc = "ensure_feature_flags"]
    /\ UNCHANGED StartupUnchanged

\* ensure_all, step 3: ensure_feature_flags
EnsureFeatureFlags ==
    /\ startup.pc = "ensure_feature_flags"
    /\ LET status == startup.model_config[1].status
           api_status == IF status = <<>> THEN "Ok" ELSE from_i32(status[1])
       IN IF status # <<>> /\ is_fatal(api_status)
          THEN startup' = [startup EXCEPT
                  !.log = Append(@, "ensure_feature_flags"),
                  !.feature_flags_status = "Failed", !.pc = "returned",
                  !.result = CASE api_status = "Unauthenticated" -> "InvalidCredentials"
                               [] api_status = "PermissionDenied" -> "AccountDisabled"
                               [] api_status = "AugmentUpgradeRequired" -> "UpgradeRequired"
                               [] OTHER -> "Other"]
          ELSE startup' = [startup EXCEPT
                  !.log = Append(@, "ensure_feature_flags"),
                  !.feature_flags_status = "Success", !.pc = "update_session"]
    /\ UNCHANGED StartupUnchanged

\* ensure_all, step 4: the metadata update, then Ok(StartupState)
UpdateSession ==
    /\ startup.pc = "update_session"
    /\ \E updated \in BOOLEAN :
         startup' = [startup EXCEPT
            !.log = Append(@, "update_session"), !.updated = <<updated>>,
            !.pc = "returned", !.result = update_session_outcome(updated)]
    /\ UNCHANGED StartupUnchanged

NextStartup ==
    \/ AuthSessionStoreNew
    \/ EnsureAuth
    \/ ValidateConnection
    \/ GetModels
    \/ EnsureFeatureFlags
    \/ UpdateSession

SpecStartup == InitCache /\ [][NextStartup]_vars

\* ---------------------------------------------------------- model resolver
\* the largest registry explored
MaxModels == 2

ModelIds == {"claude-sonnet", "sonnet", "haiku"}
DisplayNames == {<<>>, <<"Sonnet 4.5">>, <<"sonnet">>, <<"default">>}
ShortNames == {<<>>, <<"sonnet">>, <<"claude-sonnet">>, <<"default">>}

\* ModelInfoEntry, the fields resolution reads
ModelInfoEntries ==
    [display_name : DisplayNames, short_name : ShortNames, disabled : BOOLEAN]

\* ModelInfoRegistry: entries keyed by model id
ModelInfoRegistries ==
    UNION { [ids -> ModelInfoEntries] :
              ids \in { m \in SUBSET ModelIds : Cardinality(m) <= MaxModels } }

\* --model: absent, or a string
UserInputs ==
    {<<>>} \cup { <<s>> : s \in {"", "  ", "default", "DEFAULT", "sonnet", " sonnet ",
                                 "Sonnet 4.5", "claude-sonnet", "haiku", "gpt"} }

\* the catalog's default model, if any
DefaultModels == {<<>>, <<"claude-sonnet">>, <<"haiku">>, <<"opus">>}

\* str::trim on the inputs above
trim(s) ==
    CASE s = "  " -> ""
      [] s = " sonnet " -> "sonnet"
      [] OTHER -> s

\* str::to_ascii_lowercase on the inputs above, the comparison key of
\* eq_ignore_ascii_case
to_ascii_lowercase(s) ==
    CASE s = "DEFAULT" -> "default"
      [] s = "Sonnet 4.5" -> "sonnet 4.5"
      [] OTHER -> s

eq_ignore_ascii_case(s, t) == to_ascii_lowercase(s) = to_ascii_lowercase(t)

Resolution(kind, id, display_name, short_name, matched_by) ==
    [kind |-> kind, id |-> id, display_name |-> display_name,
     short_name |-> short_name, matched_by |-> matched_by]

\* a resolver that tries shortName before displayName
resolve_model_short_first(input, registry) ==
    LET s == trim(input)
        by_display == { id \in DOMAIN registry : registry[id].display_name = <<s>> }
        by_short == { id \in DOMAIN registry : registry[id].short_name = <<s>> }
    IN IF eq_ignore_ascii_case(s, "default")
       THEN { Resolution("UseDefault", "", <<>>, <<>>, "") }
       ELSE IF by_short # {}
       THEN { Resolution("Resolved", id, registry[id].display_name, <<>>, "ShortName") :
                id \in by_short }
       ELSE IF by_display # {}
       THEN { Resolution("DisplayNameNotSupported", id, registry[id].display_name,
                         registry[id].short_name, "") : id \in by_display }
       ELSE IF s \in DOMAIN registry
       THEN { Resolution("Resolved", s, registry[s].display_name, <<>>, "Id") }
       ELSE { Resolution("NotFound", "", <<>>, <<>>, "") }

\* resolve_model: the resolutions it can return; the registry is a HashMap, so
\* among several entries matching at one level any one may be met first
resolve_model(input, registry) ==
    LET s == trim(input)
        by_display == { id \in DOMAIN registry : registry[id].display_name = <<s>> }
        by_short == { id \in DOMAIN registry : registry[id].short_name = <<s>> }
    IN IF eq_ignore_ascii_case(s, "default")
       THEN { Resolution("UseDefault", "", <<>>, <<>>, "") }
       ELSE IF by_display # {}
       THEN { Resolution("DisplayNameNotSupported", id, registry[id].display_name,
                         registry[id].short_name, "") : id \in by_display }
       ELSE IF by_short # {}
       THEN { Resolution("Resolved", id, registry[id].display_name, <<>>, "ShortName") :
                id \in by_short }
       ELSE IF s \in DOMAIN registry
       THEN { Resolution("Resolved", s, registry[s].display_name, <<>>, "Id") }
       ELSE { Resolution("NotFound", "", <<>>, <<>>, "") }

\* a fallback that hands out a disabled model
fallback_keeping_disabled(resolution, registry, default_model) ==
    IF resolution.kind = "Resolved" THEN <<resolution.id>> ELSE default_model

\* resolve_model_with_fallback, the match on the resolution
fallback(resolution, registry, default_model) ==
    IF resolution.kind = "Resolved"
    THEN IF resolution.id \in DOMAIN registry /\ registry[resolution.id].disabled
         THEN default_model
         ELSE <<resolution.id>>
    ELSE default_model

ResolverUnchanged == <<bgu, locks, sess, walk, adapt, enh, call, startup, api, rw, runtime, http, chunker, fs, cache,
                       content_seq_counter, disk, upload_status, acked, obs, inc, full,
                       tool, edits, runs, bc>>

\* resolve_model_with_fallback is called for some registry, input and default
ResolveCall ==
    /\ resolver.pc = "idle"
    /\ \E registry \in ModelInfoRegistries, user_input \in UserInputs,
          default_model \in DefaultModels :
         resolver' = [resolver EXCEPT !.pc = "called", !.registry = registry,
                         !.user_input = user_input, !.default_model = default_model]
    /\ UNCHANGED ResolverUnchanged

\* resolve_model_with_fallback runs
ResolveModelWithFallback ==
    /\ resolver.pc = "called"
    /\ IF resolver.user_input = <<>> \/ trim(resolver.user_input[1]) = ""
       THEN resolver' = [resolver EXCEPT !.pc = "returned", !.result = <<>>]
       ELSE \E resolution \in resolve_model(resolver.user_input[1], resolver.registry) :
              resolver' = [resolver EXCEPT
                 !.pc = "returned", !.resolution = resolution,
                 !.result = fallback(resolution, resolver.registry,
                                     resolver.default_model)]
    /\ UNCHANGED ResolverUnchanged

NextResolver ==
    \/ ResolveCall
    \/ ResolveModelWithFallback

SpecResolver == InitCache /\ [][NextResolver]_vars

\* ------------------------------------------- sync_incremental, await by await
\* the answer to an upload request of n blobs that keeps the batch-upload
\* contract: an error, or the names of the first k blobs
RequestAnswers(n) == {[ok |-> FALSE, k |-> 0]} \cup {[ok |-> TRUE, k |-> k] : k \in 0..n}

\* a call that goes on without waiting for the response
awaited_detached(inflight, id) == TRUE

\* `.await` on a request: the caller resumes once the request is no longer in flight
awaited(inflight, id) == id \notin inflight

\* the answer the caller sees when it resumes
AnswerTo(id) ==
    IF id \in DOMAIN call.answers THEN call.answers[id] ELSE [ok |-> FALSE, k |-> 0]

CallUnchanged == <<bgu, locks, sess, walk, adapt, enh, resolver, startup, api, rw, runtime, http, chunker, fs, cache,
                   content_seq_counter, disk, upload_status, acked, obs, inc, full,
                   tool, edits, runs, bc>>

\* sync_incremental is called; the scan starts
CallStart ==
    /\ call.pc = "idle"
    /\ call' = [call EXCEPT !.pc = "scanning"]
    /\ UNCHANGED CallUnchanged

\* manager.scan_incremental().await returns; the batches are built
CallScanned ==
    /\ call.pc = "scanning"
    /\ LET scan == scan_workspace_incremental(fs, cache)
       IN call' = [call EXCEPT
             !.pc = "next_batch", !.scan_done = TRUE,
             !.batches = IF scan.to_upload # <<>>
                         THEN create_upload_batches(scan.to_upload) ELSE <<>>]
    /\ UNCHANGED CallUnchanged

\* upload_batch_with_fallback: client.batch_upload(blobs) is sent
CallSendBatch ==
    /\ call.pc = "next_batch" /\ call.batches # <<>>
    /\ call' = [call EXCEPT
          !.pc = "await_batch", !.batch = Head(call.batches), !.batches = Tail(@),
          !.inflight = @ \cup {call.next_id}, !.pending = call.next_id,
          !.next_id = @ + 1]
    /\ UNCHANGED CallUnchanged

\* the server answers a request in flight
CallAnswer ==
    /\ \E id \in call.inflight :
         \E answer \in RequestAnswers(IF id = call.pending /\ call.pc = "await_batch"
                                      THEN Len(call.batch) ELSE 1) :
            call' = [call EXCEPT !.inflight = @ \ {id},
                                 !.answers = Put(@, id, answer)]
    /\ UNCHANGED CallUnchanged

\* upload_batch_with_fallback resumes after the batch request
CallBatchResumed ==
    /\ call.pc = "await_batch"
    /\ awaited(call.inflight, call.pending)
    /\ LET k == AnswerTo(call.pending).k
       IN call' = [call EXCEPT
             !.pc = "fallback",
             !.uploaded_files = @ \o SubSeq(call.batch, 1, k),
             !.rest = SubSeq(call.batch, k + 1, Len(call.batch))]
    /\ UNCHANGED CallUnchanged

\* the fallback loop sends one blob on its own
CallSendSingle ==
    /\ call.pc = "fallback" /\ call.rest # <<>>
    /\ call' = [call EXCEPT
          !.pc = "await_single",
          !.inflight = @ \cup {call.next_id}, !.pending = call.next_id,
          !.next_id = @ + 1]
    /\ UNCHANGED CallUnchanged

\* the fallback loop resumes after a single-blob request
CallSingleResumed ==
    /\ call.pc = "await_single"
    /\ awaited(call.inflight, call.pending)
    /\ call' = [call EXCEPT
          !.pc = "fallback",
          !.uploaded_files = IF AnswerTo(call.pending).k > 0
                             THEN Append(@, Head(call.rest)) ELSE @,
          !.rest = Tail(@)]
    /\ UNCHANGED CallUnchanged

\* upload_batch_with_fallback returns; the loop over the batches goes on
CallBatchDone ==
    /\ call.pc = "fallback" /\ call.rest = <<>>
    /\ call' = [call EXCEPT !.pc = "next_batch", !.batch = <<>>]
    /\ UNCHANGED CallUnchanged

\* after the last batch: the checkpoint is assembled and the call returns
CallFinish ==
    /\ call.pc = "next_batch" /\ call.batches = <<>>
    /\ call' = [call EXCEPT !.pc = "done", !.checkpoint_built = TRUE]
    /\ UNCHANGED CallUnchanged

NextCall ==
    \/ CallStart
    \/ CallScanned
    \/ CallSendBatch
    \/ CallAnswer
    \/ CallBatchResumed
    \/ CallSendSingle
    \/ CallSingleResumed
    \/ CallBatchDone
    \/ CallFinish

SpecCall == Init /\ [][NextCall]_vars

\* ----------------------------------------------------------- prompt_enhancer
MaxEnhCalls == 1

\* args.prompt
Prompts == {"", "  ", "fix"}

\* get_client(): None before set_runtime, the client afterwards
Clients == {<<>>, <<"client">>}

EnhUnchanged == <<bgu, locks, sess, walk, adapt, call, resolver, startup, api, rw, runtime, http, chunker, fs, cache,
                  content_seq_counter, disk, upload_status, acked, obs, inc, full,
                  tool, edits, runs, bc>>

\* prompt_enhancer up to the request: the two early returns, the checkpoint
\* read under the read lock, the call to client.prompt_enhancer
PromptEnhancerCall ==
    /\ enh.pc \in {"idle", "returned"}
    /\ enh.calls < MaxEnhCalls
    /\ \E prompt \in Prompts, client \in Clients, workspace \in BOOLEAN :
         LET args == [EnhIdle EXCEPT !.prompt = prompt, !.client = client,
                                     !.workspace = workspace,
                                     !.requests = enh.requests,
                                     !.calls = enh.calls + 1]
         IN IF trim(prompt) = ""
            THEN enh' = [args EXCEPT !.pc = "returned", !.result = "tool_error: empty prompt"]
            ELSE IF client = <<>>
            THEN enh' = [args EXCEPT !.pc = "returned",
                                     !.result = "tool_error: not authenticated"]
            ELSE enh' = [args EXCEPT
                    !.pc = "sent",
                    !.checkpoint = IF workspace THEN <<get_checkpoint(cache)>> ELSE <<>>,
                    !.requests = @ + 1]
    /\ UNCHANGED EnhUnchanged

\* client.prompt_enhancer(..).await returns
PromptEnhancerReturn ==
    /\ enh.pc = "sent"
    /\ \E ok \in BOOLEAN :
         enh' = [enh EXCEPT !.pc = "returned",
                            !.result = IF ok THEN "success" ELSE "error"]
    /\ UNCHANGED EnhUnchanged

\* the tool next to one sync_incremental on a workspace that changes
NextEnh ==
    \/ Edit
    \/ IncScan /\ runs = 0
    \/ IncRemove
    \/ IncBatch
    \/ IncFinish
    \/ PromptEnhancerCall
    \/ PromptEnhancerReturn

SpecEnh == Init /\ [][NextEnh]_vars

\* ------------------------- codebase_retrieval: the byte cap of the upload loop
\* blobs waiting for upload, in scan order: five of 4 bytes, one of 3, one of 1
AdaptFiles == <<FileBlob(<<"a">>, <<"s">>, 1), FileBlob(<<"b">>, <<"s">>, 1),
                FileBlob(<<"c">>, <<"r">>, 1), FileBlob(<<"d">>, <<"s">>, 1),
                FileBlob(<<"e">>, <<"s">>, 1), FileBlob(<<"f">>, <<"p">>, 1),
                FileBlob(<<"g">>, <<"s">>, 1)>>

\* scan_result.to_upload: a non-empty run of the waiting blobs
AdaptUploads == {SubSeq(AdaptFiles, i, j) : i \in 1..Len(AdaptFiles), j \in 1..Len(AdaptFiles)}
                \ {<<>>}

\* failed responses of batch-upload: the HTTP status and the response body; a
\* text is a sequence of fragments, and a substring search looks for a fragment
ErrorStatuses == {400, 413, 503}
ErrorBodies == {<<>>, <<"Invalid JSON ", "payload", " received">>, <<"upstream error">>}
BatchUploadErrors == [http_status : ErrorStatuses, body : ErrorBodies]

\* ApiStatus::error_message
error_message(status) ==
    CASE status = "InvalidArgument" -> <<"Invalid request">>
      [] status = "AugmentTooLarge" -> <<"Request body ", "too large">>
      [] status = "Unavailable" -> <<"Service temporarily unavailable">>
      [] OTHER -> <<"Unknown error occurred">>

\* ApiError::from_http_response(..).message, which is what e.to_string() prints
from_http_response(http_status, body) ==
    <<"API error (HTTP ", ToString(http_status), "): ">>
    \o (IF body = <<>> THEN error_message(from_http_status(http_status)) ELSE body)

\* str::to_lowercase, fragment by fragment
to_lowercase(text) == [i \in DOMAIN text |-> to_ascii_lowercase(text[i])]

\* str::contains
contains(text, pat) == \E i \in DOMAIN text : text[i] = pat

\* is_too_large of the Err arm
is_too_large(text) ==
    \/ contains(text, "413")
    \/ contains(to_lowercase(text), "too large")
    \/ contains(to_lowercase(text), "payload")

AdaptUnchanged == <<bgu, locks, sess, walk, enh, call, resolver, startup, api, rw, runtime, http, chunker, fs,
                    upload_status, acked, obs, inc, full,
                    tool, edits, runs, bc>>

\* the scan found blobs to upload: current_max_bytes = MAX_BATCH_BYTES and the
\* first batch_by_bytes
AdaptStart ==
    /\ adapt.pc = "idle"
    /\ \E to_upload \in AdaptUploads :
         adapt' = [AdaptIdle EXCEPT !.pc = "for",
                                    !.batches = batch_by_bytes(to_upload, ToolMaxBatchBytes)]
    /\ UNCHANGED <<cache, content_seq_counter, disk>>
    /\ UNCHANGED AdaptUnchanged

\* for batch in batches: retry_batch = batch, retries = 0
AdaptNextBatch ==
    /\ adapt.pc = "for" /\ adapt.batches # <<>>
    /\ adapt' = [adapt EXCEPT !.pc = "while", !.retry_batch = Head(adapt.batches),
                              !.batches = Tail(adapt.batches), !.retries = 0,
                              !.e = NoError, !.resent = FALSE]
    /\ UNCHANGED <<cache, content_seq_counter, disk>>
    /\ UNCHANGED AdaptUnchanged

\* while !retry_batch.is_empty() && retries < MAX_RETRIES
AdaptWhile ==
    /\ adapt.pc = "while"
    /\ adapt' = [adapt EXCEPT !.pc = IF adapt.retry_batch # <<>> /\ adapt.retries < MAX_RETRIES
                                     THEN "send" ELSE "for",
                              !.resent = adapt.retry_batch # <<>>
                                         /\ adapt.retries < MAX_RETRIES /\ adapt.retries > 0]
    /\ UNCHANGED <<cache, content_seq_counter, disk>>
    /\ UNCHANGED AdaptUnchanged

\* batch_upload answers Ok with k names: mark_files_as_uploaded, extend, break
AdaptOk ==
    /\ adapt.pc = "send"
    /\ \E k \in 0..Len(adapt.retry_batch) :
         adapt' = [adapt EXCEPT !.pc = "for",
                                !.uploaded_blobs = @ \o SubSeq(Names(adapt.retry_batch), 1, k),
                                !.e = NoError]
    /\ LET marked == mark_files_as_uploaded(cache, content_seq_counter, adapt.retry_batch)
       IN cache' = marked.cache /\ content_seq_counter' = marked.counter
    /\ UNCHANGED disk
    /\ UNCHANGED AdaptUnchanged

\* batch_upload answers Err(e): halve the cap and re-batch, or give the batch up
AdaptErr ==
    /\ adapt.pc = "send"
    /\ \E e \in BatchUploadErrors :
         IF is_too_large(from_http_response(e.http_status, e.body))
            /\ adapt.current_max_bytes > ToolMinBatchBytes
         THEN LET halved == Max(adapt.current_max_bytes \div 2, ToolMinBatchBytes)
                  sub_batches == batch_by_bytes(adapt.retry_batch, halved)
              IN adapt' = [adapt EXCEPT
                             !.pc = "while",
                             !.current_max_bytes = halved,
                             !.retry_batch = IF sub_batches # <<>> THEN Head(sub_batches)
                                             ELSE adapt.retry_batch,
                             !.retries = adapt.retries + 1,
                             !.e = e]
         ELSE adapt' = [adapt EXCEPT !.pc = "for", !.e = e]
    /\ UNCHANGED <<cache, content_seq_counter, disk>>
    /\ UNCHANGED AdaptUnchanged

\* after the last batch: save_state (it may fail)
AdaptDone ==
    /\ adapt.pc = "for" /\ adapt.batches = <<>>
    /\ adapt' = [adapt EXCEPT !.pc = "done"]
    /\ \E save_ok \in BOOLEAN : disk' = IF save_ok THEN cache ELSE disk
    /\ UNCHANGED <<cache, content_seq_counter>>
    /\ UNCHANGED AdaptUnchanged

NextAdapt ==
    \/ AdaptStart
    \/ AdaptNextBatch
    \/ AdaptWhile
    \/ AdaptOk
    \/ AdaptErr
    \/ AdaptDone

SpecAdapt == InitCache /\ [][NextAdapt]_vars

\* ------------------------------------------------ ignore rules of the scanner
\* WorkspaceManager::new: ignore_patterns
ignore_patterns == {".git", ".gitignore", ".augmentignore", "node_modules", "target",
                    ".augment", "dist", "build", ".next", ".venv", "venv", "__pycache__",
                    ".DS_Store"}

\* the built-in ignored directory and file names
BuiltInIgnored == ignore_patterns \ {".gitignore", ".augmentignore"}

\* the mandatory overrides: globs of sensitive files
DEFAULT_AUGMENT_RULES == {".env"}

\* names beginning with a dot
HiddenNames == {".git", ".gitignore", ".augmentignore", ".augment", ".next", ".venv",
                ".DS_Store", ".env"}

\* workspace-relative paths of regular files, component by component
WalkPaths == {<<"src", "main.rs">>, <<"node_modules", "pkg.js">>, <<".git", "config">>,
              <<"app", "build", "out.js">>, <<".venv", "lib.py">>,
              <<"target", "debug", "app">>, <<".env">>}

\* a line of an ignore file: a name, with a leading ! when it whitelists
IgnoreLines == [whitelist : BOOLEAN, name : {"node_modules", ".venv", "build"}]

\* the content of .gitignore or .augmentignore; <<>> when there is none
IgnoreFiles == {<<>>} \cup {<<l>> : l \in IgnoreLines}
               \cup {<<k, l>> : k, l \in IgnoreLines}

\* Gitignore::matched for a name without a slash: the last line naming the
\* path's final component decides
gitignore_matched(lines, path) ==
    LET hits == {i \in DOMAIN lines : lines[i].name = path[Len(path)]}
    IN IF hits = {} THEN "None"
       ELSE LET last == CHOOSE i \in hits : \A j \in hits : j <= i
            IN IF lines[last].whitelist THEN "Whitelist" ELSE "Ignore"

\* load_ignore_files: .gitignore then .augmentignore in one matcher
load_ignore_files(gitignore, augmentignore) == gitignore \o augmentignore

\* should_ignore
should_ignore(path, patterns, gitignore) ==
    LET matches_default == \E i \in DOMAIN path : path[i] \in patterns
    IN IF matches_default THEN TRUE
       ELSE gitignore_matched(gitignore, path) = "Ignore"

\* the walker of build_walker deciding one entry: the overrides, then
\* .augmentignore, then .gitignore (inside a git repository), then the files
\* named by add_ignore, then the hidden-file filter. add_ignore is handed
\* root_path.join(name), which is a directory or missing when name is one of
\* ignore_patterns, so it reads no line
walker_matched(path, gitignore, augmentignore, git_repo) ==
    LET custom == gitignore_matched(augmentignore, path)
        git == IF git_repo THEN gitignore_matched(gitignore, path) ELSE "None"
        explicit == gitignore_matched(<<>>, path)
        rules == IF custom # "None" THEN custom
                 ELSE IF git # "None" THEN git ELSE explicit
    IN IF path[Len(path)] \in DEFAULT_AUGMENT_RULES THEN "Ignore"
       ELSE IF rules # "None" THEN rules
       ELSE IF path[Len(path)] \in HiddenNames THEN "Ignore"
       ELSE "None"

\* walker.build() yields a file when neither it nor a directory above it is ignored
walker_yields(path, gitignore, augmentignore, git_repo) ==
    \A i \in 1..Len(path) :
        walker_matched(SubSeq(path, 1, i), gitignore, augmentignore, git_repo) # "Ignore"

WalkUnchanged == <<bgu, locks, sess, adapt, enh, call, resolver, startup, api, rw, runtime, http, chunker, fs,
                   cache, content_seq_counter, disk, upload_status, acked, obs, inc, full,
                   tool, edits, runs, bc>>

\* a workspace with one file and its ignore files
WalkSetup ==
    /\ walk.pc = "idle"
    /\ \E path \in WalkPaths, gitignore \in IgnoreFiles, augmentignore \in IgnoreFiles,
          git_repo \in BOOLEAN :
         walk' = [WalkIdle EXCEPT !.pc = "ready", !.path = path, !.gitignore = gitignore,
                                  !.augmentignore = augmentignore, !.git_repo = git_repo]
    /\ UNCHANGED WalkUnchanged

\* should_ignore_path
ShouldIgnorePath ==
    /\ walk.pc = "ready"
    /\ walk' = [walk EXCEPT !.pc = "asked",
                  !.ignored = should_ignore(walk.path, ignore_patterns,
                                load_ignore_files(walk.gitignore, walk.augmentignore))]
    /\ UNCHANGED WalkUnchanged

\* scan_workspace and scan_workspace_incremental walk with build_walker and
\* process every regular file it yields
WalkScan ==
    /\ walk.pc = "asked"
    /\ walk' = [walk EXCEPT !.pc = "scanned",
                  !.emitted = walker_yields(walk.path, walk.gitignore, walk.augmentignore,
                                            walk.git_repo)]
    /\ UNCHANGED WalkUnchanged

NextWalk ==
    \/ WalkSetup
    \/ ShouldIgnorePath
    \/ WalkScan

SpecWalk == InitCache /\ [][NextWalk]_vars

\* ------------------------------------------- ApiClient: x-request-session-id
MaxRequests == 4
\* the values Uuid::new_v4 may return
Uuids == 1..3
\* the places that build an ApiClient: background_upload (handlers.rs:22), and
\* each call of codebase_retrieval and of prompt_enhancer
Origins == {"background_upload", "codebase_retrieval", "prompt_enhancer"}

\* ApiClient::new: a new session_id for this client
ApiClientNew(session_id) == [session_id |-> session_id]

\* the headers post_api_with_timeout puts on one attempt
RequestHeaders(client, origin, attempt) ==
    [origin |-> origin, attempt |-> attempt, session_id |-> client.session_id]

SessUnchanged == <<bgu, locks, walk, adapt, enh, call, resolver, startup, api, rw, runtime, http, chunker,
                   fs, cache, content_seq_counter, disk, upload_status, acked, obs, inc,
                   full, tool, edits, runs, bc>>

\* background_upload starts, or a tool is called: ApiClient::new(None) or
\* ApiClient::with_mode(Mcp), then the first attempt of its request
SessCall ==
    /\ Len(sess.sent) < MaxRequests
    /\ \E origin \in Origins, session_id \in Uuids :
         /\ origin = "background_upload" => origin \notin DOMAIN sess.clients
         /\ LET client == ApiClientNew(session_id)
            IN sess' = [clients |-> Put(sess.clients, origin, client),
                        sent |-> Append(sess.sent, RequestHeaders(client, origin, 1))]
    /\ UNCHANGED SessUnchanged

\* send_with_retry sends the request of the last call again, or the same client
\* sends its next request
SessSendAgain ==
    /\ sess.sent # <<>> /\ Len(sess.sent) < MaxRequests
    /\ LET last == sess.sent[Len(sess.sent)]
       IN \E attempt \in {1, last.attempt + 1} :
            sess' = [sess EXCEPT !.sent = Append(@, RequestHeaders(sess.clients[last.origin],
                                                                   last.origin, attempt))]
    /\ UNCHANGED SessUnchanged

NextSess ==
    \/ SessCall
    \/ SessSendAgain

SpecSess == InitCache /\ [][NextSess]_vars

\* ------------------------------------------- the three locks of the manager
Lock(name, mode) == [lock |-> name, mode |-> mode]

\* load_state taking the counter before the cache
load_state_counter_first ==
    <<Lock("content_seq_counter", "write"), Lock("blobs_cache", "write")>>

\* the guards load_state takes, in order
load_state_locks == <<Lock("blobs_cache", "write"), Lock("content_seq_counter", "write")>>

\* the guards each manager operation takes, in order; all are dropped when the
\* operation returns. "http" is an upload request: it holds no lock
LocksOf(op) ==
    CASE op = "load_state" -> load_state_locks
      [] op \in {"mark_files_as_uploaded", "mark_as_uploaded"} ->
           <<Lock("blobs_cache", "write"), Lock("content_seq_counter", "write")>>
      [] op = "remove_deleted_from_cache" -> <<Lock("blobs_cache", "write")>>
      [] op \in {"save_state", "scan_incremental", "get_files_to_upload", "get_checkpoint"} ->
           <<Lock("blobs_cache", "read")>>
      [] op = "set_upload_status" -> <<Lock("upload_status", "write")>>
      [] op = "get_upload_status" -> <<Lock("upload_status", "read")>>
      [] OTHER -> <<>>

\* the manager operations of each task, in program order (one upload batch)
OpsOf(task) ==
    CASE task = "sync_full" ->
           <<"get_files_to_upload", "set_upload_status", "http", "mark_files_as_uploaded",
             "set_upload_status", "save_state", "set_upload_status", "get_checkpoint">>
      [] task = "sync_incremental" ->
           <<"scan_incremental", "remove_deleted_from_cache", "http",
             "mark_files_as_uploaded", "save_state">>
      [] task = "load_state" -> <<"load_state">>
      [] OTHER -> <<"get_upload_status", "get_upload_status">>

\* tokio RwLock: a request is granted in arrival order, a writer alone, a
\* reader together with other readers
grantable(holders, mode) ==
    IF mode = "write" THEN holders = {} ELSE \A h \in holders : h[2] = "read"

LocksUnchanged == <<bgu, sess, walk, adapt, enh, call, resolver, startup, api, rw, runtime, http,
                    chunker, fs, cache, content_seq_counter, disk, upload_status, acked, obs,
                    inc, full, tool, edits, runs, bc>>

\* the lock the task's current operation needs next
Wanted(t) == LocksOf(Head(locks.ops[t]))[locks.held[t] + 1]

\* the task is spawned
TaskStart(t) ==
    /\ locks.pc[t] = "idle"
    /\ locks' = [locks EXCEPT !.pc[t] = "running", !.ops[t] = OpsOf(t)]
    /\ UNCHANGED LocksUnchanged

\* lock.read().await or lock.write().await is polled: the task joins the queue
TaskRequest(t) ==
    /\ locks.pc[t] = "running" /\ locks.ops[t] # <<>>
    /\ locks.held[t] < Len(LocksOf(Head(locks.ops[t])))
    /\ locks' = [locks EXCEPT !.pc[t] = "waiting",
                              !.queue[Wanted(t).lock] = Append(@, t)]
    /\ UNCHANGED LocksUnchanged

\* the request at the head of the queue is granted
TaskGranted(t) ==
    /\ locks.pc[t] = "waiting"
    /\ LET want == Wanted(t)
       IN /\ locks.queue[want.lock] # <<>> /\ Head(locks.queue[want.lock]) = t
          /\ grantable(locks.holders[want.lock], want.mode)
          /\ locks' = [locks EXCEPT !.pc[t] = "running",
                                    !.queue[want.lock] = Tail(@),
                                    !.holders[want.lock] = @ \cup {<<t, want.mode>>},
                                    !.held[t] = @ + 1]
    /\ UNCHANGED LocksUnchanged

\* the operation returns and its guards are dropped; an upload request returns
TaskReturn(t) ==
    /\ locks.pc[t] = "running" /\ locks.ops[t] # <<>>
    /\ locks.held[t] = Len(LocksOf(Head(locks.ops[t])))
    /\ locks' = [locks EXCEPT
                   !.holders = [l \in LockNames |-> {h \in locks.holders[l] : h[1] # t}],
                   !.held[t] = 0,
                   !.ops[t] = Tail(@),
                   !.pc[t] = IF Tail(locks.ops[t]) = <<>> THEN "returned" ELSE "running"]
    /\ UNCHANGED LocksUnchanged

\* the server lists more names than the batch holds: batch[..k] panics inside
\* upload_batch_with_fallback and the task ends there
TaskPanic(t) ==
    /\ locks.pc[t] = "running" /\ locks.ops[t] # <<>> /\ Head(locks.ops[t]) = "http"
    /\ locks' = [locks EXCEPT !.pc[t] = "panicked", !.ops[t] = <<>>]
    /\ UNCHANGED LocksUnchanged

TaskStep(t) ==
    TaskStart(t) \/ TaskRequest(t) \/ TaskGranted(t) \/ TaskReturn(t) \/ TaskPanic(t)

NextLocks ==
    \/ \E t \in Tasks : TaskStart(t)
    \/ \E t \in Tasks : TaskRequest(t)
    \/ \E t \in Tasks : TaskGranted(t)
    \/ \E t \in Tasks : TaskReturn(t)
    \/ \E t \in Tasks : TaskPanic(t)

\* the runtime keeps polling every spawned task, and every upload request returns
SpecLocks == InitCache /\ [][NextLocks]_vars /\ \A t \in Tasks : WF_vars(TaskStep(t))

\* ------------------------------------------------- background_upload (MCP)
\* scaled stand-in for BATCH_UPLOAD_SIZE (50)
BATCH_UPLOAD_SIZE == 1

RECURSIVE chunks(_, _)
\* slice::chunks
chunks(files, n) ==
    IF files = <<>> THEN <<>>
    ELSE <<SubSeq(files, 1, Min(n, Len(files)))>>
         \o chunks(SubSeq(files, Min(n, Len(files)) + 1, Len(files)), n)

UploadStatus(total_files, uploaded_files, is_uploading, upload_complete) ==
    [total_files |-> total_files, uploaded_files |-> uploaded_files,
     is_uploading |-> is_uploading, upload_complete |-> upload_complete]

BguUnchanged == <<locks, sess, walk, adapt, enh, call, resolver, startup, api, rw, runtime,
                  http, chunker, fs, acked, obs, inc, full, tool, edits, runs, bc>>

\* scan_and_collect, get_files_to_upload, the early return and the first status
BackgroundUploadStart ==
    /\ bgu.pc = "idle"
    /\ LET files_to_upload == get_files_to_upload(fs, cache)
       IN IF files_to_upload = <<>>
          THEN /\ bgu' = [bgu EXCEPT !.pc = "returned"]
               /\ UNCHANGED upload_status
          ELSE /\ bgu' = [bgu EXCEPT !.pc = "uploading",
                                     !.chunks = chunks(files_to_upload, BATCH_UPLOAD_SIZE),
                                     !.total_files = Len(files_to_upload)]
               /\ upload_status' = UploadStatus(Len(files_to_upload), 0, TRUE, FALSE)
    /\ UNCHANGED <<cache, content_seq_counter, disk>>
    /\ UNCHANGED BguUnchanged

\* the batch_upload request of the next chunk is sent
BackgroundUploadSend ==
    /\ bgu.pc = "uploading" /\ bgu.chunks # <<>>
    /\ bgu' = [bgu EXCEPT !.pc = "sending", !.sent = @ + 1]
    /\ UNCHANGED <<cache, content_seq_counter, disk, upload_status>>
    /\ UNCHANGED BguUnchanged

\* the request is answered: Ok marks the chunk and reports progress, Err
\* reports the error and the loop goes on with the next chunk
BackgroundUploadAnswer ==
    /\ bgu.pc = "sending"
    /\ \E ok \in BOOLEAN :
         LET chunk == Head(bgu.chunks)
             marked == mark_files_as_uploaded(cache, content_seq_counter, chunk)
             uploaded_count == IF ok THEN bgu.uploaded_count + Len(chunk)
                               ELSE bgu.uploaded_count
         IN /\ cache' = IF ok THEN marked.cache ELSE cache
            /\ content_seq_counter' = IF ok THEN marked.counter ELSE content_seq_counter
            /\ upload_status' = UploadStatus(bgu.total_files, uploaded_count, ok, FALSE)
            /\ bgu' = [bgu EXCEPT !.pc = "uploading", !.chunks = Tail(@),
                                  !.uploaded_count = uploaded_count]
    /\ UNCHANGED disk
    /\ UNCHANGED BguUnchanged

\* after the last chunk: save_state (it may fail) and the final status
BackgroundUploadFinish ==
    /\ bgu.pc = "uploading" /\ bgu.chunks = <<>>
    /\ \E save_ok \in BOOLEAN : disk' = IF save_ok THEN cache ELSE disk
    /\ upload_status' = UploadStatus(bgu.total_files, bgu.uploaded_count, FALSE, TRUE)
    /\ bgu' = [bgu EXCEPT !.pc = "returned"]
    /\ UNCHANGED <<cache, content_seq_counter>>
    /\ UNCHANGED BguUnchanged

NextBgu ==
    \/ BackgroundUploadStart
    \/ BackgroundUploadSend
    \/ BackgroundUploadAnswer
    \/ BackgroundUploadFinish

SpecBgu == Init /\ [][NextBgu]_vars

\* ================================================================== claims
\* C1: in every upload path a cache entry for a blob is written only after
\* the server has acknowledged that blob (a batch answer listing k names
\* lets only the first k blobs be written, a failed request none).
C1_CachedOnlyAfterAck ==
    \A p \in DOMAIN cache.path_to_blob : cache.path_to_blob[p].blob_name \in acked

\* C2: the checkpoint returned by sync_incremental never contains a blobId
\* that the server has not acknowledged in this call or an earlier run.
C2_CheckpointAcked ==
    inc.pc = "done" => Range(inc.checkpoint.added_blobs) \subseteq acked

\* C3: after any sequence of update and remove on an initially empty
\* BlobsCache the reverse index maps b to p if and only if the forward entry
\* of p has blobId b.
C3_ForwardReverseIff ==
    \A p \in CachePaths, b \in CacheBlobs :
        (b \in DOMAIN bc.blob_to_path /\ bc.blob_to_path[b] = p)
        <=> (p \in DOMAIN bc.path_to_blob /\ bc.path_to_blob[p].blob_name = b)

\* C4: the mtime stored in a cache entry is the mtime observed when the file
\* was scanned, never one read at commit time; so a file whose mtime differs
\* from the one seen by the scan that was committed is read again by the
\* next incremental scan and all its blobs are placed in to_upload.
C4_ScanTimeMtime ==
    LET next_scan == scan_workspace_incremental(fs, cache)
    IN \A p \in DOMAIN cache.path_to_blob :
          /\ p \in DOMAIN obs
          /\ cache.path_to_blob[p].mtime = obs[p]
          /\ (SrcFile(p) \in DOMAIN fs /\ fs[SrcFile(p)].mtime # obs[p])
             => /\ SrcFile(p) \in next_scan.read
                /\ Range(process_file(SrcFile(p), fs[SrcFile(p)]))
                     \subseteq Range(next_scan.to_upload)

\* C4 witness: a file was modified after its scan, and the blob scanned
\* before the modification has been committed with the earlier mtime.
C4_Witness ==
    /\ inc.pc \in {"uploading", "done"} /\ inc.dirty
    /\ \E i \in DOMAIN inc.last.result.uploaded_files :
         LET blob == inc.last.result.uploaded_files[i]
         IN /\ blob.path \in DOMAIN cache.path_to_blob
            /\ cache.path_to_blob[blob.path].mtime = blob.mtime
            /\ SrcFile(blob.path) \in DOMAIN fs
            /\ fs[SrcFile(blob.path)].mtime # blob.mtime
            /\ SrcFile(blob.path) \in scan_workspace_incremental(fs, cache).read

\* C5: for a batch of n blobs answered with k names (k = 0 when the batch
\* request fails) the first k blobs are recorded as uploaded, then exactly
\* one single-blob request is issued for each of the other n - k blobs in
\* batch order and none for the first k.
C5_BatchThenFallback ==
    LET batch == inc.last.batch
        result == inc.last.result
        n == Len(batch)
        k == IF inc.last.batch_failed THEN 0 ELSE inc.last.names
    IN (n > 0 /\ k <= n) =>
          /\ result.batch_uploaded = k
          /\ Len(result.uploaded_files) >= k
          /\ SubSeq(result.uploaded_files, 1, k) = SubSeq(batch, 1, k)
          /\ result.requests =
                <<Names(batch)>> \o [i \in 1..(n - k) |-> <<batch[k + i].blob_name>>]

\* C5 witness: a batch of two blobs answered with one name, followed by one
\* single-blob request for the second blob.
C5_Witness ==
    /\ Len(inc.last.batch) = 2 /\ ~inc.last.batch_failed /\ inc.last.names = 1
    /\ Len(inc.last.result.requests) = 2
    /\ inc.last.result.requests[2] = <<inc.last.batch[2].blob_name>>

\* C6: a blob whose upload failed in one sync_incremental is sent again by
\* the next sync_incremental when no file changed from the start of the first
\* run to the end of the second, whether it is the only blob of its file or
\* one chunk of a file whose other chunks were acknowledged.
C6_FailedBlobResent ==
    LET sent == UNION {Range(inc.reqs[i]) : i \in DOMAIN inc.reqs}
    IN (inc.pc = "done" /\ inc.quiet = 2) =>
          \A blob \in inc.prev_failed : blob.blob_name \in sent

\* C7: the checkpoint returned by sync_incremental has added_blobs equal, as
\* a set, to the unchanged blobIds of the call's scan together with the
\* blobIds acknowledged during the call, lists no blobId twice, has no
\* checkpoint id and has empty deleted_blobs.
C7_CheckpointUnion ==
    inc.pc = "done" =>
       /\ Range(inc.checkpoint.added_blobs)
             = Range(inc.scan.unchanged_blobs) \cup inc.acked_now
       /\ Len(inc.checkpoint.added_blobs)
             = Cardinality(Range(inc.checkpoint.added_blobs))
       /\ inc.checkpoint.checkpoint_id = "None"
       /\ inc.checkpoint.deleted_blobs = <<>>

\* C8: of two sync_incremental runs in a row with no file change before,
\* between or during them (and a first run whose uploads were all
\* acknowledged), the second issues no upload request and returns a
\* checkpoint with the same set of blobIds as the first.
C8_Idempotent ==
    (inc.pc = "done" /\ inc.quiet = 2 /\ inc.prev_failed = {}) =>
       /\ inc.reqs = <<>>
       /\ Range(inc.checkpoint.added_blobs) = Range(inc.prev_checkpoint.added_blobs)

\* C9: the incremental scan classifies each live file exactly one way: when
\* the file has cached entries and its mtime equals the mtime of each of
\* them, their blobIds are emitted as unchanged and the file is not read;
\* otherwise the file is read, all its blobs are emitted in to_upload and
\* none of its cached blobIds is emitted as unchanged.
C9_ClassifiedOneWay ==
    inc.pc = "scanned" =>
       \A f \in DOMAIN inc.scan_fs :
          LET entries == inc.scan_cache.path_to_blob
              cached == {p \in DOMAIN entries : SrcFile(p) = f}
              cached_blobs == {entries[p].blob_name : p \in cached}
              same == \A p \in cached : entries[p].mtime = inc.scan_fs[f].mtime
              blobs == process_file(f, inc.scan_fs[f])
          IN IF cached # {} /\ same
             THEN /\ cached_blobs \subseteq Range(inc.scan.unchanged_blobs)
                  /\ f \notin inc.scan.read
                  /\ Range(blobs) \cap Range(inc.scan.to_upload) = {}
             ELSE /\ f \in inc.scan.read
                  /\ Range(blobs) \subseteq Range(inc.scan.to_upload)
                  /\ cached_blobs \cap Range(inc.scan.unchanged_blobs) = {}

\* C10: a cached path whose file is not among the live files is reported in
\* deleted_paths; when sync_incremental returns it has no forward entry, its
\* blobId is absent from the reverse index and from the checkpoint and was
\* not sent in any upload request; the entries of files that are present and
\* unchanged are kept.
C10_DeletedRemoved ==
    LET entries == inc.scan_cache.path_to_blob
        sent == UNION {Range(inc.reqs[i]) : i \in DOMAIN inc.reqs}
    IN inc.pc = "done" =>
          \A p \in DOMAIN entries :
             /\ SrcFile(p) \notin DOMAIN inc.scan_fs =>
                   /\ p \in Range(inc.scan.deleted_paths)
                   /\ p \notin DOMAIN cache.path_to_blob
                   /\ entries[p].blob_name \notin DOMAIN cache.blob_to_path
                   /\ entries[p].blob_name \notin Range(inc.checkpoint.added_blobs)
                   /\ entries[p].blob_name \notin sent
             /\ (/\ SrcFile(p) \in DOMAIN inc.scan_fs
                 /\ \A q \in DOMAIN entries :
                       SrcFile(q) = SrcFile(p) =>
                          entries[q].mtime = inc.scan_fs[SrcFile(p)].mtime)
                => /\ p \in DOMAIN cache.path_to_blob
                   /\ cache.path_to_blob[p].blob_name = entries[p].blob_name

\* C11: in every cache state the manager's operations produce, the blobIds
\* of the reverse index are exactly the blobIds of the forward entries, so
\* has_blob is true exactly for the names get_uploaded_blob_names returns.
C11_ReverseWithinForward ==
    /\ \A b \in DOMAIN cache.blob_to_path :
          \E p \in DOMAIN cache.path_to_blob : cache.path_to_blob[p].blob_name = b
    /\ \A b \in CacheBlobs : has_blob(cache, b) <=> b \in get_uploaded_blob_names(cache)

C13_FourAttemptsThenReturn ==
    /\ [](/\ http.pc # "unreachable"
          /\ Len(http.answers) <= 4
          /\ Len(http.waits) <= 3
          /\ http.pc = "returned" =>
                LET last == http.answers[Len(http.answers)]
                IN /\ http.stub # <<>> =>
                         (http.result = "Ok(success)" <=> http.stub[1] <= 3)
                   /\ (http.result = "Ok(success)") <=>
                         (last.kind = "status" /\ last.code \in 200..299)
                   /\ ( /\ http.result # "Ok(success)"
                        /\ IF last.kind = "status"
                           THEN last.code \in {408, 429, 500, 502, 503, 504}
                           ELSE last.class \in {"connect", "timeout", "body"} )
                      => Len(http.answers) = 4)
    /\ (http.pc = "sending") ~> (http.pc = "returned")

C13_Witness ==
    /\ http.pc = "returned"
    /\ http.stub = <<3>>
    /\ Len(http.answers) = 4
    /\ http.result = "Ok(success)"

\* C14: an answer is followed by a retry only if it is one of the statuses
\* 408, 429, 500, 502, 503, 504 or a send error of class connect, timeout or
\* body; any other failure is the last answer of the call, which has
\* returned without waiting after it.
C14_RetriesOnlyOnListed ==
    \A i \in 1..Len(http.answers) :
       LET answer == http.answers[i]
           listed == IF answer.kind = "status"
                     THEN answer.code \in {408, 429, 500, 502, 503, 504}
                     ELSE answer.class \in {"connect", "timeout", "body"}
       IN /\ i <= Len(http.waits) => listed
          /\ ~listed => /\ i = Len(http.answers)
                        /\ http.pc = "returned"
                        /\ Len(http.waits) = i - 1
          /\ (listed /\ i <= 3) => i <= Len(http.waits)

C14_Witness ==
    /\ http.pc = "returned"
    /\ Len(http.answers) = 2
    /\ Len(http.waits) = 1
    /\ http.answers[1] = [kind |-> "error", class |-> "body"]
    /\ http.answers[2] = [kind |-> "status", code |-> 426]
    /\ http.result = "Ok(failure)"

\* C15: the i-th wait is 2^(i-1) seconds plus at most a quarter of that;
\* three waits add up to between 7 and 8.75 seconds; and a returned call has
\* waited once less than it has attempted, so nothing follows the last attempt.
C15_BackoffSchedule ==
    /\ \A i \in 1..Len(http.waits) :
          LET base == (2 ^ (i - 1)) * 1000
          IN /\ i <= 3
             /\ base <= http.waits[i]
             /\ 4 * (http.waits[i] - base) <= base
    /\ Len(http.waits) = 3 =>
          LET total == http.waits[1] + http.waits[2] + http.waits[3]
          IN 7000 <= total /\ total <= 8750
    /\ http.pc = "returned" => Len(http.waits) = Len(http.answers) - 1

C15_Witness ==
    /\ http.pc = "returned"
    /\ Len(http.answers) = 4
    /\ http.waits = <<1250, 2000, 4500>>

\* C16: every batch the batcher produces holds at most the blob-count cap of
\* blobs and strictly fewer content bytes than the byte cap, none is empty,
\* and the batches in order are the input sequence.
C16_BatchesWithinCaps ==
    chunker.pc = "batched" =>
       /\ \A i \in DOMAIN chunker.batches :
             LET batch == chunker.batches[i]
                 bytes == ContentBytes(Flatten([j \in DOMAIN batch |-> batch[j].content]))
             IN /\ batch # <<>>
                /\ Len(batch) <= BatchBlobCount
                /\ bytes < BatchByteSize
       /\ Flatten(chunker.batches) = chunker.to_upload

\* C17: every chunk emitted for an indexed file has at most the line cap of
\* lines and at most the blob-size cap of bytes, whatever the lengths of the
\* file's lines.
C17_ChunksWithinCaps ==
    \A i \in DOMAIN chunker.file_blobs :
       /\ Len(chunker.file_blobs[i].content) <= LinesPerBlob
       /\ ContentBytes(chunker.file_blobs[i].content) <= BlobSize

\* C18: the chunks emitted for a file, in order, add up to the file's content
\* line for line; one chunk is emitted under the relative path itself and N > 1
\* chunks under <path>#chunk1ofN .. <path>#chunkNofN; and a file of short
\* lines with more lines than one chunk holds, but no more than two chunks
\* hold, yields a full chunk followed by the remaining lines.
C18_ChunksRebuildFile ==
    chunker.done # {} =>
       LET blobs == chunker.file_blobs
           N == Len(blobs)
           n == Len(chunker.content)
       IN /\ N >= 1
          /\ Flatten([i \in 1..N |-> blobs[i].content]) = chunker.content
          /\ N = 1 => blobs[1].path = chunker.path
          /\ N > 1 => \A i \in 1..N :
                         /\ blobs[i].path =
                               chunker.path \o <<"#chunk", DigitStr[i], "of", DigitStr[N]>>
                         /\ blobs[i].content # <<>>
          /\ ( /\ \A k \in 1..n : chunker.content[k] = "p"
               /\ LinesPerBlob < n
               /\ n <= 2 * LinesPerBlob )
             => /\ N = 2
                /\ Len(blobs[1].content) = LinesPerBlob
                /\ Len(blobs[2].content) = n - LinesPerBlob

C18_Witness ==
    /\ chunker.path = FileX
    /\ chunker.content = <<"p", "p">>
    /\ Len(chunker.file_blobs) = 2
    /\ chunker.file_blobs[2].path = <<"x", "#chunk", "2", "of", "2">>

\* C19: every sync_incremental that has scanned comes to its end, and it
\* ends without returning only when the server listed more names than the
\* batch held (outside the batch-upload contract); failed batch requests,
\* failed single-blob requests and a failed save all end in a returned
\* checkpoint made of the unchanged blobs followed by the blobs acknowledged
\* in this run, each blob of to_upload being either acknowledged or left out.
C19_AlwaysReturnsCheckpoint ==
    /\ [](inc.pc = "panicked" => inc.last.names > Len(inc.last.batch))
    /\ [](inc.pc = "done" =>
            /\ inc.checkpoint.checkpoint_id = "None"
            /\ inc.checkpoint.deleted_blobs = <<>>
            /\ inc.checkpoint.added_blobs = inc.scan.unchanged_blobs \o inc.uploaded_blobs
            /\ Range(inc.uploaded_blobs) \subseteq Range(Names(inc.scan.to_upload))
            /\ Range(inc.uploaded_blobs) \cup {b.blob_name : b \in inc.failed}
                  = Range(Names(inc.scan.to_upload)))
    /\ (inc.pc \in {"scanned", "uploading"}) ~> (inc.pc \in {"done", "panicked"})

\* C19 witness: a run that returned after a failed batch request in which one
\* single-blob request succeeded and another failed, and whose save failed.
C19_Witness ==
    /\ inc.pc = "done"
    /\ inc.last.batch_failed
    /\ inc.failed # {}
    /\ inc.uploaded_blobs # <<>>
    /\ disk # cache

\* C20: when sync_incremental has returned after committing at least one
\* acknowledged blob or after removing at least one deleted path, and no save
\* failed, the persisted cache file equals the in-memory cache.
C20_WrittenThrough ==
    ( /\ inc.pc = "done"
      /\ ~inc.save_failed
      /\ \/ inc.uploaded_blobs # <<>>
         \/ \E i \in DOMAIN inc.scan.deleted_paths :
               inc.scan.deleted_paths[i] \in DOMAIN inc.scan_cache.path_to_blob )
    => disk = cache

\* C21: the checkpoint a sync returns, incremental or full, holds no blobId
\* that stands for no blob of the workspace as scanned and that the cache
\* held, at the scan, for a path whose file was absent at the scan or for a
\* path to which this sync committed another blobId.
C21_CheckpointIsCurrent ==
    \A sync \in {inc, full} :
       sync.pc = "done" =>
          LET current == Range(Names(scan_workspace(sync.scan_fs)))
              before == sync.scan_cache.path_to_blob
              after == sync.ret_cache.path_to_blob
          IN \A b \in Range(sync.checkpoint.added_blobs) \ current :
                \A p \in DOMAIN before :
                   before[p].blob_name = b =>
                      /\ SrcFile(p) \in DOMAIN sync.scan_fs
                      /\ p \in DOMAIN after => after[p].blob_name = b

\* C22: after load_state and before any commit the counter is one more than
\* the largest contentSeq loaded, 1001 when none was loaded; every contentSeq
\* assigned afterwards is greater than every one loaded and every one
\* assigned before it; and no two cache entries share a contentSeq, with
\* sync_full and sync_incremental committing side by side.
C22_ContentSeqIncreases ==
    rw.loaded =>
       /\ rw.assigned = <<>> =>
             /\ rw.loaded_seqs = {} => rw.counter = 1001
             /\ \A n \in rw.loaded_seqs : n < rw.counter
             /\ rw.loaded_seqs # {} => rw.counter - 1 \in rw.loaded_seqs
       /\ \A i \in DOMAIN rw.assigned :
             /\ \A n \in rw.loaded_seqs : n < rw.assigned[i]
             /\ \A j \in 1..(i - 1) : rw.assigned[j] < rw.assigned[i]
       /\ \A p, q \in DOMAIN rw.cache.path_to_blob :
             p # q => rw.cache.path_to_blob[p].content_seq
                         # rw.cache.path_to_blob[q].content_seq

\* C22 witness: a cache with contentSeqs 1001 and 1003 was loaded and both
\* syncs have committed, the second while the first had not yet finished.
C22_Witness ==
    /\ rw.loaded_seqs = {1001, 1003}
    /\ rw.assigned = <<1004, 1005>>
    /\ \E p \in Syncs : rw.pc[p] = "writing"
    /\ \A p \in Syncs : rw.plan[p] # <<>>

\* C23: loading the persisted cache file gives a cache in which every
\* reverse entry names a path whose forward entry carries that blobId and
\* every forward blobId has a reverse entry, and which has the same forward
\* and reverse maps as the cache that was saved.
C23_LoadRestoresInvariant ==
    LET c == load(disk)
    IN /\ \A b \in DOMAIN c.blob_to_path :
             /\ c.blob_to_path[b] \in DOMAIN c.path_to_blob
             /\ c.path_to_blob[c.blob_to_path[b]].blob_name = b
       /\ \A p \in DOMAIN c.path_to_blob :
             c.path_to_blob[p].blob_name \in DOMAIN c.blob_to_path
       /\ c = disk

\* C24: of all set_runtime calls at most one is applied, and one is as soon
\* as a call has completed; every other completed call was ignored and left
\* the stored runtime as the applied call set it; get_runtime returns nothing
\* exactly while no set has been applied; and after it has returned a value
\* every later get_runtime returns that value.
C24_RuntimeWriteOnce ==
    LET completed == runtime.sets - Cardinality({t \in Threads : runtime.pc[t] = "setting"})
    IN /\ Len(runtime.applied) <= 1
       /\ completed > 0 => Len(runtime.applied) = 1
       /\ Len(runtime.applied) + runtime.ignored = completed
       /\ IF runtime.applied = <<>> THEN runtime.cell = <<>>
          ELSE runtime.cell = <<runtime.applied[1].value>>
       /\ \A i \in DOMAIN runtime.gets :
             /\ runtime.gets[i].value = <<>> <=> runtime.gets[i].applied = 0
             /\ \A j \in DOMAIN runtime.gets :
                   (i < j /\ runtime.gets[i].value # <<>>)
                      => runtime.gets[j].value = runtime.gets[i].value

\* C24 witness: two threads were inside set_runtime together with different
\* values, one was applied and two calls were ignored, and get_runtime
\* returned nothing before and the applied value after.
C24_Witness ==
    /\ runtime.applied = <<[thread |-> "worker", value |-> "rt2"]>>
    /\ runtime.ignored = 2
    /\ runtime.arg["main"] = "rt1"
    /\ Len(runtime.gets) = 2
    /\ runtime.gets[1].value = <<>>
    /\ runtime.gets[2].value = <<"rt2">>

\* C26: 401, 403 and 426 map to Unauthenticated, PermissionDenied and
\* UpgradeRequired, 499 to Cancelled, 400, 404, 408, 413, 429 and 504 to
\* InvalidArgument, Unimplemented, ClientTimeout, TooLarge, ResourceExhausted
\* and DeadlineExceeded, every other 5xx to Unavailable; a mapped status is
\* fatal exactly when it is one of the first three, retryable exactly when it
\* is Cancelled or Unavailable, and never both.
C26_StatusMapping ==
    api.pc = "mapped" =>
       LET h == api.http_status
           named == (401 :> "Unauthenticated") @@ (403 :> "PermissionDenied")
                    @@ (426 :> "AugmentUpgradeRequired") @@ (499 :> "Cancelled")
                    @@ (400 :> "InvalidArgument") @@ (404 :> "Unimplemented")
                    @@ (408 :> "AugmentClientTimeout") @@ (413 :> "AugmentTooLarge")
                    @@ (429 :> "ResourceExhausted") @@ (504 :> "DeadlineExceeded")
       IN /\ h \in DOMAIN named => api.status = named[h]
          /\ (h >= 500 /\ h <= 599 /\ h # 504) => api.status = "Unavailable"
          /\ api.fatal <=> h \in {401, 403, 426}
          /\ api.retryable <=> (h = 499 \/ (h >= 500 /\ h <= 599 /\ h # 504))
          /\ ~(api.fatal /\ api.retryable)

C26_Witness ==
    /\ api.pc = "mapped"
    /\ api.http_status = 504
    /\ api.status = "DeadlineExceeded"
    /\ ~api.retryable

\* C25: ensure_all runs the credential check, the connection probe, the
\* catalog fetch and the feature-flag check in that order and returns at the
\* first failing step: a run that is not logged in sends no request, a failed
\* run never updates the metadata; it returns a StartupState exactly when
\* credentials were found, the probe was Ok, the catalog was fetched and its
\* status is not 7, 8 or 12, whatever the metadata update did.
C25_EnsureAllOrder ==
    LET steps == <<"ensure_auth", "validate_connection", "get_models",
                   "ensure_feature_flags", "update_session">>
        log == startup.log
        fatal == /\ startup.model_config # <<>>
                 /\ startup.model_config[1].status # <<>>
                 /\ startup.model_config[1].status[1] \in {7, 8, 12}
    IN /\ Len(log) <= Len(steps)
       /\ \A i \in 1..Len(log) : log[i] = steps[i]
       /\ startup.pc = "returned" =>
            /\ log # <<>>
            /\ startup.result # "Pending"
            /\ ~startup.is_logged_in => log = <<"ensure_auth">>
            /\ startup.result # "StartupState" =>
                 /\ Len(log) < Len(steps)
                 /\ CASE Len(log) = 1 -> startup.session = <<>>
                      [] Len(log) = 2 -> startup.validation # "Ok"
                      [] Len(log) = 3 -> startup.model_config = <<>>
                      [] Len(log) = 4 -> fatal
            /\ startup.result = "StartupState" <=>
                 /\ startup.session # <<>>
                 /\ startup.validation = "Ok"
                 /\ startup.model_config # <<>>
                 /\ ~fatal

C25_Witness ==
    /\ startup.pc = "returned"
    /\ startup.result = "StartupState"
    /\ startup.updated = <<FALSE>>
    /\ startup.model_config[1].status = <<6>>

\* C29: the session comes from the first source that resolves, in the order
\* AUGMENT_SESSION_AUTH (valid session JSON), AUGMENT_API_TOKEN with
\* AUGMENT_API_URL (both non-empty), the session file (valid session JSON);
\* an absent or invalid source falls through; a resolved session has a
\* non-empty token, tenant URL and scope list; is_logged_in is true exactly
\* when some source resolves; with no source the startup ends NotLoggedIn.
C29_CredentialPriority ==
    LET valid(raw) == /\ raw.parsed /\ raw.access_token # ""
                      /\ raw.tenant_url # "" /\ raw.scopes # <<>>
        json_ok == startup.env_auth # <<>> /\ valid(startup.env_auth[1])
        pair_ok == /\ startup.env_token # <<>> /\ startup.env_url # <<>>
                   /\ startup.env_token[1] # "" /\ startup.env_url[1] # ""
        file_ok == /\ startup.file # <<>> /\ startup.file[1].readable
                   /\ valid(startup.file[1].raw)
        token == IF json_ok THEN startup.env_auth[1].access_token
                 ELSE IF pair_ok THEN startup.env_token[1]
                 ELSE startup.file[1].raw.access_token
        url == IF json_ok THEN startup.env_auth[1].tenant_url
               ELSE IF pair_ok THEN startup.env_url[1]
               ELSE startup.file[1].raw.tenant_url
    IN startup.pc # "new" =>
         /\ startup.is_logged_in <=> (json_ok \/ pair_ok \/ file_ok)
         /\ startup.pc # "ready" =>
              IF json_ok \/ pair_ok \/ file_ok
              THEN /\ startup.session # <<>>
                   /\ startup.session[1].access_token = token
                   /\ startup.session[1].tenant_url = url
                   /\ startup.session[1].access_token # ""
                   /\ startup.session[1].tenant_url # ""
                   /\ startup.session[1].scopes # <<>>
              ELSE /\ startup.session = <<>>
                   /\ startup.pc = "returned"
                   /\ startup.result = "NotLoggedIn"

C29_Witness ==
    /\ startup.pc = "validate_connection"
    /\ startup.env_auth # <<>>
    /\ startup.env_auth[1].parsed
    /\ startup.env_auth[1].scopes = <<>>
    /\ startup.env_token = <<"pair">>
    /\ startup.env_url = <<"">>
    /\ startup.session # <<>>
    /\ startup.session[1].access_token = "file"

C28_DisabledFallsBack ==
    (/\ resolver.pc = "returned"
     /\ resolver.resolution.kind = "Resolved"
     /\ resolver.registry[resolver.resolution.id].disabled)
    => resolver.result = resolver.default_model

C28_Witness ==
    /\ resolver.pc = "returned"
    /\ resolver.resolution.kind = "Resolved"
    /\ resolver.resolution.matched_by = "Id"
    /\ resolver.registry[resolver.resolution.id].disabled
    /\ resolver.default_model = <<"opus">>
    /\ resolver.result = <<"opus">>

\* C30: change detection looks at the mtime alone. A file whose cached image
\* is complete and whose mtime changed while its content did not is re-read by
\* the incremental scan and ends the sync with the same blob names in the
\* cache and the new mtime; a file whose content changed while its mtime did
\* not is not read, its cached blob names are reported unchanged, none of its
\* blobs is uploaded and its cache rows stay as they were.
C30_MtimeOnlyDetection ==
    LET sc == inc.scan_cache.path_to_blob
        rc == inc.ret_cache.path_to_blob
        now(f) == inc.scan_fs[f]
        blobs(f) == process_file(f, now(f))
        cachedOf(f) == {p \in DOMAIN sc : SrcFile(p) = f}
        image(f, content, mtime) ==
            LET bs == process_file(f, [content |-> content, mtime |-> mtime])
            IN /\ cachedOf(f) = {bs[i].path : i \in DOMAIN bs}
               /\ \A i \in DOMAIN bs : /\ sc[bs[i].path].blob_name = bs[i].blob_name
                                       /\ sc[bs[i].path].mtime = mtime
        touched(f) == \E m \in Mtimes \ {now(f).mtime} : image(f, now(f).content, m)
        stale(f) == \E old \in Contents \ {now(f).content} : image(f, old, now(f).mtime)
    IN inc.pc = "done" => \A f \in DOMAIN inc.scan_fs :
         /\ touched(f) =>
              /\ f \in inc.scan.read
              /\ \A i \in DOMAIN blobs(f) :
                   /\ blobs(f)[i].path \in DOMAIN rc
                   /\ rc[blobs(f)[i].path].blob_name = blobs(f)[i].blob_name
                   /\ rc[blobs(f)[i].path].mtime = now(f).mtime
         /\ stale(f) =>
              /\ f \notin inc.scan.read
              /\ \A i \in DOMAIN inc.scan.to_upload :
                   SrcFile(inc.scan.to_upload[i].path) # f
              /\ \A p \in cachedOf(f) :
                   /\ \E i \in DOMAIN inc.scan.unchanged_blobs :
                        inc.scan.unchanged_blobs[i] = sc[p].blob_name
                   /\ p \in DOMAIN rc /\ rc[p] = sc[p]

\* C31: within one sync_incremental call no upload request is sent before
\* the scan has returned, none is in flight when the checkpoint is assembled,
\* and the batch requests and single-blob fallback requests are sent one at a
\* time: at most one request of the call is in flight.
C31_UploadsAreSerial ==
    /\ Cardinality(call.inflight) <= 1
    /\ call.next_id > 1 => call.scan_done
    /\ call.inflight # {} => ~call.checkpoint_built
    /\ call.checkpoint_built =>
         /\ call.inflight = {}
         /\ \A id \in 1..(call.next_id - 1) : id \in DOMAIN call.answers

C31_Witness ==
    /\ call.pc = "done"
    /\ call.checkpoint_built
    /\ call.next_id >= 5
    /\ Len(call.uploaded_files) >= 2

\* C32: a step of prompt_enhancer starts no scan and no upload and leaves the
\* cache, its persisted file, the sequence counter and the upload status as
\* they were; with a workspace the checkpoint it sends lists exactly the blob
\* names the cache holds at that moment; with an empty prompt or without a
\* client it returns an error and sends no request.
C32_EnhancerFrame ==
    [][enh' # enh =>
         /\ UNCHANGED <<cache, disk, content_seq_counter, upload_status, acked,
                        inc, full, tool, runs>>
         /\ (enh'.pc = "sent" /\ enh'.workspace) =>
              /\ enh'.checkpoint # <<>>
              /\ {enh'.checkpoint[1].added_blobs[i] :
                     i \in DOMAIN enh'.checkpoint[1].added_blobs}
                 = {cache.path_to_blob[p].blob_name : p \in DOMAIN cache.path_to_blob}
              /\ enh'.checkpoint[1].deleted_blobs = <<>>
         /\ (enh.pc # "sent" /\ (enh'.prompt \in {"", "  "} \/ enh'.client = <<>>)) =>
              /\ enh'.pc = "returned"
              /\ enh'.result \in {"tool_error: empty prompt",
                                  "tool_error: not authenticated"}
              /\ enh'.requests = enh.requests
    ]_vars

C32_Witness ==
    /\ enh.pc = "sent"
    /\ enh.workspace
    /\ enh.checkpoint # <<>>
    /\ Len(enh.checkpoint[1].added_blobs) >= 2
    /\ inc.pc = "uploading"

\* C33: in the upload loop of codebase_retrieval the byte cap shrinks only when
\* the server reported a payload-size error (HTTP 413), it never falls below the
\* floor, a batch that is sent again holds at least one blob, and a batch is
\* given up after at most MAX_RETRIES reductions
C33_AdaptiveByteCap ==
    [][/\ (adapt'.current_max_bytes < adapt.current_max_bytes
           => from_http_status(adapt'.e.http_status) = "AugmentTooLarge")
       /\ adapt'.current_max_bytes >= ToolMinBatchBytes
       /\ (adapt'.resent => adapt'.retry_batch # <<>>)
       /\ adapt'.retries <= MAX_RETRIES]_vars

\* C34: a file with a built-in ignored name among the components of its
\* relative path is never emitted by a scan, whatever .gitignore and
\* .augmentignore say
C34_BuiltInNeverEmitted ==
    walk.pc = "scanned" /\ (\E i \in DOMAIN walk.path : walk.path[i] \in BuiltInIgnored)
    => ~walk.emitted

\* C35: every request the process sends carries the same x-request-session-id
C35_OneSessionIdPerProcess ==
    \A i, j \in DOMAIN sess.sent : sess.sent[i].session_id = sess.sent[j].session_id

\* C36: the deletion step of sync_incremental removes for a path only the
\* entry its own scan saw: an entry another sync committed for that path after
\* the scan is not removed
C36_RemovesOnlyScannedEntries ==
    rw.pc["inc"] = "writing" /\ rw.entry["inc"] # <<>> /\ rw.snapshot["inc"] # <<>>
    => LET path == Head(rw.plan["inc"]).paths[1]
           scanned == rw.snapshot["inc"][1].path_to_blob
       IN path \in DOMAIN scanned => scanned[path] = rw.entry["inc"][1]

\* C37: the tasks sharing one manager cannot deadlock. A task that holds the
\* counter or the status lock waits for no lock, so the locks are taken in one
\* order; a task that ended holds no lock; while some task has not ended some
\* task can take a step; every lock request is granted; every started task
\* comes to its end, which is a return unless an upload answer made it panic.
C37_NoDeadlock ==
    /\ [](\A t \in Tasks :
            locks.pc[t] = "waiting" =>
               \A l \in {"content_seq_counter", "upload_status"} :
                  \A h \in locks.holders[l] : h[1] # t)
    /\ [](\A t \in Tasks :
            locks.pc[t] \in {"returned", "panicked"} =>
               \A l \in LockNames : \A h \in locks.holders[l] : h[1] # t)
    /\ []((\E t \in Tasks : locks.pc[t] \notin {"returned", "panicked"})
          => \E t \in Tasks : ENABLED TaskStep(t))
    /\ \A t \in Tasks : (locks.pc[t] = "waiting") ~> (locks.pc[t] # "waiting")
    /\ \A t \in Tasks : (locks.pc[t] = "running") ~> (locks.pc[t] \in {"returned", "panicked"})

\* C37 witness: load_state waits for the cache behind sync_incremental while
\* sync_full holds the cache and waits for the counter that nobody holds yet
C37_Witness ==
    /\ locks.pc["sync_full"] = "waiting" /\ locks.held["sync_full"] = 1
    /\ Len(locks.queue["blobs_cache"]) = 2
    /\ locks.pc["status"] = "waiting"

\* C38: upload_batch_with_fallback returns for every answer of the server, an
\* answer listing more names than the batch holds included, and the files it
\* reports as uploaded are never more than the batch holds
C38_UploadEngineReturns ==
    /\ inc.pc # "panicked"
    /\ Len(inc.last.result.uploaded_files) <= Len(inc.last.batch)
    /\ inc.last.result.batch_uploaded + inc.last.result.sequential_uploaded
          <= Len(inc.last.batch)

\* C39: while the background upload has a request in flight the status says
\* is_uploading and not upload_complete; uploaded_files never decreases and
\* never exceeds total_files; once the upload has finished the status says
\* not is_uploading and upload_complete
C39_ProgressReport ==
    /\ [](bgu.pc = "sending"
          => upload_status.is_uploading /\ ~upload_status.upload_complete)
    /\ [](upload_status.uploaded_files <= upload_status.total_files)
    /\ [](bgu.pc = "returned" /\ bgu.total_files > 0
          => ~upload_status.is_uploading /\ upload_status.upload_complete)
    /\ [][upload_status'.uploaded_files >= upload_status.uploaded_files]_vars

\* C40: with a collision-free hash two different (path, content) pairs have
\* different blob names, so no two paths of the forward map carry one blob
\* name and compete for its entry of the reverse index
C40_DistinctBlobsDistinctNames ==
    \A p, q \in DOMAIN bc.path_to_blob :
       p # q => bc.path_to_blob[p].blob_name # bc.path_to_blob[q].blob_name

====
